---- MODULE Spec2Model ----
(***************************************************************************)
(* Compliance analysis pipeline of RAi-Platform                            *)
(*   backend/app/services/compliance/analysis_engine.py                    *)
(*   backend/app/services/compliance/azure_openai_client.py                *)
(*   backend/app/services/compliance/compliance_orchestrator.py            *)
(*   backend/app/services/compliance/chunking_service.py                   *)
(*   backend/app/services/compliance/search_service.py                     *)
(*                                                                         *)
(* The specifications of this module, one per component:                   *)
(*   SpecValidate   validate_result applied once and twice to a parsed dict*)
(*   SpecClient     AzureOpenAIClient.chat_completion, attempt by attempt  *)
(*   SpecConcurrent chat_completion calls of several threads on one client *)
(*   SpecEngine     ComplianceAnalysisEngine.analyze / analyze_streaming   *)
(*   SpecOrch       ComplianceOrchestrator.run / run_streaming             *)
(*   SpecRefresh    SpecOrch with the save-results endpoint                *)
(*   SpecChunk      ChunkingService.chunk_text, statement by statement     *)
(*   SpecSummary    the summaries and scores of a list of results          *)
(*   SpecRetrieval  the context search of one question, remote or local    *)
(*   SpecRace       runs for one cache key side by side                    *)
(*   SpecIndex      the search index while a session's chunks are indexed  *)
(*                                                                         *)
(* Abstractions.  A float confidence is an integer number of hundredths    *)
(* (0.7 is 70); NaN is the value NaN.  A free-text string is kept by the   *)
(* only things the code reads of it: its length and, for an explanation,   *)
(* whether it contains one of the "not applicable" phrases.                *)
(***************************************************************************)
EXTENDS Integers, Sequences, FiniteSets, TLC

VARIABLES
    \* ---- validate_result under test (SpecValidate)
    result,             \* the parsed dict handed to validate_result
    context_available,  \* its context_available argument
    validated,          \* validate_result(result, context_available)
    revalidated,        \* validate_result(validated, context_available)
    vpc                 \* "off" | "parsed" | "validated" | "revalidated"

valVars == <<result, context_available, validated, revalidated, vpc>>

VARIABLES
    \* ---- AzureOpenAIClient (SpecClient)
    n_primary,          \* len(self._primary_clients)
    n_fallback,         \* len(self._fallback_clients)
    primary_index,      \* self._primary_index
    fallback_index,     \* self._fallback_index
    cpc,                \* where chat_completion stands
    attempt,            \* the loop variable of the running retry loop
    attempts,           \* this call's endpoint attempts, in order
    response,           \* what the call returned, NoResponse before that
    raised,             \* the exception the call ended with, "none" before
    calls,              \* chat_completion calls started on this client
    threads             \* SpecConcurrent: the calls running side by side

clientVars ==
    <<n_primary, n_fallback, primary_index, fallback_index, cpc, attempt,
      attempts, response, raised, calls, threads>>

VARIABLES
    \* ---- ComplianceAnalysisEngine (SpecEngine, and inside SpecOrch)
    questions,          \* the questions argument of analyze / analyze_streaming
    batch_size,         \* self._batch_size
    mode,               \* "analyze" | "analyze_streaming"
    epc,                \* where the engine stands
    next_i,             \* the loop variable i of _analyze_batch(_streaming)
    triggered,          \* the followups _filter_triggered_followups kept
    inflight,           \* the batch whose chat_completion call is running
    pending,            \* batch results the streaming generator has yet to yield
    results,            \* results / all_results
    events,             \* the events analyze_streaming has yielded
    llm_calls           \* every chat_completion call of the run, in order

engineVars ==
    <<questions, batch_size, mode, epc, next_i, triggered, inflight, pending,
      results, events, llm_calls>>

\* ComplianceOrchestrator.run / run_streaming, one run at a time, with the
\* tables they read and write.
VARIABLES
    search_available, \* SearchService.is_available
    opc,              \* position of the run: "off", "idle", a stage, "analyzing"
    runs,             \* runs started so far
    run_mode,         \* "run" or "run_streaming"
    session,          \* the ComplianceSession row of the run
    job_id,           \* job_id of the run ("none" before it is assigned)
    already_done,     \* run_streaming's already_done
    stages,           \* the pipeline stages the run has executed, in order
    document_hash,    \* local document_hash
    question_ids,     \* local question_ids
    cache,            \* table CachedAnalysisResult
    progress_rows,    \* table AnalysisProgressModel
    persisted,        \* table ComplianceResult, rows of the run's session
    stream,           \* events run_streaming has yielded to its caller
    consumed,         \* events of analyze_streaming the run has taken
    returned          \* what each finished run returned or emitted

orchVars ==
    <<search_available, opc, runs, run_mode, session, job_id, already_done,
      stages, document_hash, question_ids, cache, progress_rows, persisted,
      stream, consumed, returned>>

VARIABLES
    \* ---- ChunkingService.chunk_text, statement by statement (SpecChunk)
    chunker             \* the arguments, the locals and the position of a call

VARIABLES
    \* ---- the summaries of a list of results (SpecSummary)
    scorer              \* the results, the bundle stored for them, its replay

VARIABLES
    \* ---- the context search of one question (SpecRetrieval)
    retrieval           \* the question's hint, the chunks, what the search gave

VARIABLES
    \* ---- two runs for one cache key side by side (SpecRace)
    race                \* the cache rows and each run's position and session

VARIABLES
    \* ---- the search index while a session's chunks are indexed (SpecIndex)
    indexer             \* the chunk lists, the index documents, the position

extraVars == <<chunker, scorer, retrieval, race, indexer>>

vars == <<valVars, clientVars, engineVars, orchVars, extraVars>>

(***************************************************************************)
(* A component that a specification does not run stays in its idle state.  *)
(***************************************************************************)
NoResult ==
    [status |-> "", confidence |-> 0, explanation |-> [len |-> 0, just |-> FALSE],
     evidence |-> 0, suggested_disclosure |-> 0]

NoResponse == [content |-> "none", provider |-> "none"]

ValidateIdle ==
    /\ result = NoResult
    /\ context_available = TRUE
    /\ validated = NoResult
    /\ revalidated = NoResult
    /\ vpc = "off"

ClientIdle ==
    /\ n_primary = 0
    /\ n_fallback = 0
    /\ primary_index = 0
    /\ fallback_index = 0
    /\ cpc = "off"
    /\ attempt = 0
    /\ attempts = <<>>
    /\ response = NoResponse
    /\ raised = "none"
    /\ calls = 0
    /\ threads = <<>>

\* No call of chunk_text.
NoChunker == [pc |-> "off"]

NoScorer == [pc |-> "off"]

ChunkIdle == chunker = NoChunker

ScorerIdle == scorer = NoScorer

NoRetrieval == [pc |-> "off"]

NoRace == [pc |-> "off"]

NoIndexer == [pc |-> "off"]

RetrievalIdle == retrieval = NoRetrieval

RaceIdle == race = NoRace

IndexerIdle == indexer = NoIndexer

ExtraIdle ==
    /\ ChunkIdle
    /\ ScorerIdle
    /\ RetrievalIdle
    /\ RaceIdle
    /\ IndexerIdle

NoBatch == [sequence |-> 0, batch |-> <<>>, contexts |-> <<>>]

\* job_id before a run has drawn one.
NoJob == 0

NoSession ==
    [text |-> "", framework |-> "", selected_standards |-> <<>>,
     status |-> "created", analysis_results |-> <<>>]

\* The orchestrator at rest, whatever the search service is.
OrchQuiet ==
    /\ opc = "off"
    /\ runs = 0
    /\ run_mode = "run"
    /\ session = NoSession
    /\ job_id = NoJob
    /\ already_done = {}
    /\ stages = <<>>
    /\ document_hash = "none"
    /\ question_ids = <<>>
    /\ cache = {}
    /\ progress_rows = {}
    /\ persisted = {}
    /\ stream = <<>>
    /\ consumed = 0
    /\ returned = <<>>

OrchIdle ==
    /\ search_available = FALSE
    /\ OrchQuiet

EngineIdle ==
    /\ questions = <<>>
    /\ batch_size = 1
    /\ mode = "analyze"
    /\ epc = "off"
    /\ next_i = 0
    /\ triggered = <<>>
    /\ inflight = NoBatch
    /\ pending = <<>>
    /\ results = <<>>
    /\ events = <<>>
    /\ llm_calls = <<>>

(***************************************************************************)
(* Floats                                                                  *)
(***************************************************************************)
\* float("nan"): parse_analysis_response line 248 accepts the text "nan".
NaN == 99999

\* Python's a < b on floats: false whenever an operand is NaN.
FloatLt(a, b) == a # NaN /\ b # NaN /\ a < b

\* Python's min(a, b): a unless b < a (so min(nan, x) is nan).
PyMin(a, b) == IF FloatLt(b, a) THEN b ELSE a

(***************************************************************************)
(* Status texts                                                            *)
(***************************************************************************)
\* The texts a STATUS line may carry, "" standing for a missing line.
StatusTexts ==
    {"YES", "yes", "COMPLIANT", "NO", "NON_COMPLIANT", "N/A", "NA", "n/a",
     "MAYBE", "PENDING", "ERROR", ""}

\* str.upper() on the texts above.
Upper(s) ==
    CASE s = "yes" -> "YES"
      [] s = "n/a" -> "N/A"
      [] s = "no"  -> "NO"
      [] OTHER     -> s

\* status_map.get(status, status) of Rule 4.
StatusMapGet(status) ==
    CASE status \in {"YES", "COMPLIANT", "TRUE", "PASS"} -> "YES"
      [] status \in {"NO", "NON-COMPLIANT", "NON_COMPLIANT", "FALSE", "FAIL"} -> "NO"
      [] status \in {"N/A", "NA", "NOT APPLICABLE", "NOT_APPLICABLE"} -> "N/A"
      [] OTHER -> status

(***************************************************************************)
(* validate_result                                                         *)
(***************************************************************************)
\* len("Insufficient document context available to assess this requirement. ")
NoContextPrefixLen == 68
\* len("Review and address the non-compliance identified in the explanation above.")
PlaceholderDisclosureLen == 74

\* Rule 1: evidence shorter than 20 characters caps confidence at 0.7.
Rule1(v) ==
    IF v.evidence < 20
    THEN [v EXCEPT !.confidence = PyMin(v.confidence, 70)]
    ELSE v

\* Rule 2: an N/A without a justification phrase and with an explanation
\* shorter than 30 characters caps confidence at 0.5.  status is the raw
\* status upper-cased, read before Rule 4 normalises it.
Rule2(v, status) ==
    IF status = "N/A" /\ ~v.explanation.just /\ v.explanation.len < 30
    THEN [v EXCEPT !.confidence = PyMin(v.confidence, 50)]
    ELSE v

\* Rule 3: YES/NO with evidence shorter than 10 characters caps at 0.6.
Rule3(v, status) ==
    IF status \in {"YES", "NO"} /\ v.evidence < 10
    THEN [v EXCEPT !.confidence = PyMin(v.confidence, 60)]
    ELSE v

\* Rule 4: status normalisation through the synonym map.
Rule4(v, status) == [v EXCEPT !.status = StatusMapGet(status)]

\* Rule 5: an explanation shorter than 20 characters caps at 0.5.
Rule5(v) ==
    IF v.explanation.len < 20
    THEN [v EXCEPT !.confidence = PyMin(v.confidence, 50)]
    ELSE v

\* Rule 6: without context, cap at 0.5 and force the status to N/A,
\* prepending the explanatory prefix.
Rule6(v, ctx) ==
    IF ctx THEN v
    ELSE LET capped == [v EXCEPT !.confidence = PyMin(v.confidence, 50)]
         IN  IF capped.status # "N/A"
             THEN [capped EXCEPT
                     !.status = "N/A",
                     !.explanation =
                         [len  |-> NoContextPrefixLen + v.explanation.len,
                          just |-> v.explanation.just]]
             ELSE capped

\* Rule 7: a NO without a disclosure of 10 characters gets the placeholder.
Rule7(v) ==
    IF v.status = "NO" /\ v.suggested_disclosure < 10
    THEN [v EXCEPT !.suggested_disclosure = PlaceholderDisclosureLen]
    ELSE v

validate_result(r, ctx) ==
    LET status == Upper(r.status)
    IN  Rule7(Rule6(Rule5(Rule4(Rule3(Rule2(Rule1(r), status), status), status)), ctx))

(***************************************************************************)
(* AzureOpenAIClient.chat_completion                                       *)
(***************************************************************************)
\* AzureOpenAIClientConfig.max_retries.
max_retries == 3
\* Endpoints per pool, and chat_completion calls on one client.
MaxEndpoints == 2
MaxCalls == 2

\* What one client.chat.completions.create call can do: respond (with text
\* or with empty content), raise openai.RateLimitError, raise another
\* openai.APIError, or fail with an exception the loops do not catch.
Responses == {"text", "empty"}
Retryable == {"RateLimitError", "APIError"}
Uncaught == {"OtherError"}

\* Mutant of _next_primary: the position is never read, every pick is 0.
_next_primary_stuck(index, n) == 0

\* idx = self._primary_index % len(self._primary_clients)
_next_primary(index, n) == index % n
\* idx = self._fallback_index % len(self._fallback_clients)
_next_fallback(index, n) == index % n

\* The "provider" tag of the dict a successful attempt returns.
ProviderTag(pool) == pool

\* Mutant of AfterFallbackLoop: the call falls off its end and returns.
AfterFallbackLoopReturns == [pc |-> "returned", err |-> "none"]

\* After the fallback loop: raise RuntimeError("All ... exhausted ...").
AfterFallbackLoop == [pc |-> "raised", err |-> "EndpointsExhausted"]

InitClient ==
    /\ ExtraIdle
    /\ ValidateIdle
    /\ EngineIdle
    /\ OrchIdle
    /\ n_primary \in 0..MaxEndpoints
    /\ n_fallback \in 0..MaxEndpoints
    /\ primary_index = 0
    /\ fallback_index = 0
    /\ cpc = "idle"
    /\ attempt = 0
    /\ attempts = <<>>
    /\ response = NoResponse
    /\ raised = "none"
    /\ calls = 0
    /\ threads = <<>>

\* chat_completion is entered; the guard raises when no pool has an endpoint.
BeginCall ==
    /\ cpc \in {"idle", "returned", "raised"}
    /\ calls < MaxCalls
    /\ calls' = calls + 1
    /\ attempts' = <<>>
    /\ attempt' = 0
    /\ response' = NoResponse
    /\ IF n_primary = 0 /\ n_fallback = 0
       THEN cpc' = "raised" /\ raised' = "NotConfigured"
       ELSE cpc' = "primary" /\ raised' = "none"
    /\ UNCHANGED <<n_primary, n_fallback, primary_index, fallback_index>>
    /\ UNCHANGED <<threads, valVars, engineVars, orchVars, extraVars>>

\* One iteration of the primary loop whose endpoint responds.
PrimaryAttemptOk ==
    /\ cpc = "primary" /\ attempt < max_retries /\ n_primary > 0
    /\ \E c \in Responses :
        /\ attempts' = Append(attempts,
               [pool |-> "primary", idx |-> _next_primary(primary_index, n_primary),
                outcome |-> "ok"])
        /\ response' = [content |-> c, provider |-> ProviderTag("primary")]
    /\ primary_index' = primary_index + 1
    /\ cpc' = "returned"
    /\ UNCHANGED <<n_primary, n_fallback, fallback_index, attempt, raised, calls>>
    /\ UNCHANGED <<threads, valVars, engineVars, orchVars, extraVars>>

\* One iteration of the primary loop whose endpoint raises RateLimitError or
\* APIError: the loop sleeps and goes on.
PrimaryAttemptRetry ==
    /\ cpc = "primary" /\ attempt < max_retries /\ n_primary > 0
    /\ \E e \in Retryable :
        attempts' = Append(attempts,
            [pool |-> "primary", idx |-> _next_primary(primary_index, n_primary),
             outcome |-> e])
    /\ primary_index' = primary_index + 1
    /\ attempt' = attempt + 1
    /\ UNCHANGED <<n_primary, n_fallback, fallback_index, cpc, response, raised, calls>>
    /\ UNCHANGED <<threads, valVars, engineVars, orchVars, extraVars>>

\* One iteration of the primary loop failing with an exception that neither
\* except clause catches: it leaves chat_completion.
PrimaryAttemptRaise ==
    /\ cpc = "primary" /\ attempt < max_retries /\ n_primary > 0
    /\ \E e \in Uncaught :
        /\ attempts' = Append(attempts,
               [pool |-> "primary", idx |-> _next_primary(primary_index, n_primary),
                outcome |-> e])
        /\ raised' = e
    /\ primary_index' = primary_index + 1
    /\ cpc' = "raised"
    /\ UNCHANGED <<n_primary, n_fallback, fallback_index, attempt, response, calls>>
    /\ UNCHANGED <<threads, valVars, engineVars, orchVars, extraVars>>

\* The primary loop ends: range exhausted, or _next_primary gave no client.
PrimaryLoopEnd ==
    /\ cpc = "primary"
    /\ attempt >= max_retries \/ n_primary = 0
    /\ cpc' = "fallback"
    /\ attempt' = 0
    /\ UNCHANGED <<n_primary, n_fallback, primary_index, fallback_index,
                   attempts, response, raised, calls>>
    /\ UNCHANGED <<threads, valVars, engineVars, orchVars, extraVars>>

FallbackAttemptOk ==
    /\ cpc = "fallback" /\ attempt < max_retries /\ n_fallback > 0
    /\ \E c \in Responses :
        /\ attempts' = Append(attempts,
               [pool |-> "fallback", idx |-> _next_fallback(fallback_index, n_fallback),
                outcome |-> "ok"])
        /\ response' = [content |-> c, provider |-> ProviderTag("fallback")]
    /\ fallback_index' = fallback_index + 1
    /\ cpc' = "returned"
    /\ UNCHANGED <<n_primary, n_fallback, primary_index, attempt, raised, calls>>
    /\ UNCHANGED <<threads, valVars, engineVars, orchVars, extraVars>>

FallbackAttemptRetry ==
    /\ cpc = "fallback" /\ attempt < max_retries /\ n_fallback > 0
    /\ \E e \in Retryable :
        attempts' = Append(attempts,
            [pool |-> "fallback", idx |-> _next_fallback(fallback_index, n_fallback),
             outcome |-> e])
    /\ fallback_index' = fallback_index + 1
    /\ attempt' = attempt + 1
    /\ UNCHANGED <<n_primary, n_fallback, primary_index, cpc, response, raised, calls>>
    /\ UNCHANGED <<threads, valVars, engineVars, orchVars, extraVars>>

FallbackAttemptRaise ==
    /\ cpc = "fallback" /\ attempt < max_retries /\ n_fallback > 0
    /\ \E e \in Uncaught :
        /\ attempts' = Append(attempts,
               [pool |-> "fallback", idx |-> _next_fallback(fallback_index, n_fallback),
                outcome |-> e])
        /\ raised' = e
    /\ fallback_index' = fallback_index + 1
    /\ cpc' = "raised"
    /\ UNCHANGED <<n_primary, n_fallback, primary_index, attempt, response, calls>>
    /\ UNCHANGED <<threads, valVars, engineVars, orchVars, extraVars>>

\* The fallback loop ends without a return: the final raise.
FallbackLoopEnd ==
    /\ cpc = "fallback"
    /\ attempt >= max_retries \/ n_fallback = 0
    /\ cpc' = AfterFallbackLoop.pc
    /\ raised' = AfterFallbackLoop.err
    /\ UNCHANGED <<n_primary, n_fallback, primary_index, fallback_index,
                   attempt, attempts, response, calls>>
    /\ UNCHANGED <<threads, valVars, engineVars, orchVars, extraVars>>

NextClient ==
    \/ BeginCall
    \/ PrimaryAttemptOk
    \/ PrimaryAttemptRetry
    \/ PrimaryAttemptRaise
    \/ PrimaryLoopEnd
    \/ FallbackAttemptOk
    \/ FallbackAttemptRetry
    \/ FallbackAttemptRaise
    \/ FallbackLoopEnd

SpecClient == InitClient /\ [][NextClient]_vars

PrimaryAttempts == SelectSeq(attempts, LAMBDA a : a.pool = "primary")
FallbackAttempts == SelectSeq(attempts, LAMBDA a : a.pool = "fallback")
CallEnded == cpc \in {"returned", "raised"}

\* C8: in one chat_completion call the attempts are up to max_retries
\* consecutive round-robin picks of the primary pool, then (only if each of
\* those failed with a rate-limit or API error) up to max_retries
\* consecutive round-robin picks of the fallback pool; the first success
\* ends the call and its result carries the pool that served it.
C8_PrimaryThenFallback ==
    LET P == PrimaryAttempts
        F == FallbackAttempts
    IN  /\ attempts = P \o F
        /\ Len(P) <= max_retries
        /\ Len(F) <= max_retries
        /\ \A i \in 1..Len(P) : P[i].idx \in 0..(n_primary - 1)
        /\ \A i \in 1..Len(F) : F[i].idx \in 0..(n_fallback - 1)
        /\ \A i \in 1..(Len(P) - 1) : P[i + 1].idx = (P[i].idx + 1) % n_primary
        /\ \A i \in 1..(Len(F) - 1) : F[i + 1].idx = (F[i].idx + 1) % n_fallback
        /\ F # <<>> =>
              /\ \A i \in 1..Len(P) : P[i].outcome \in Retryable
              /\ Len(P) = max_retries \/ n_primary = 0
        /\ \A i \in 1..(Len(attempts) - 1) : attempts[i].outcome \in Retryable
        /\ (attempts # <<>> /\ attempts[Len(attempts)].outcome = "ok") =>
              /\ cpc = "returned"
              /\ response.provider = attempts[Len(attempts)].pool

\* C8 case: the primary pool failed max_retries times and the second
\* fallback pick, on the other fallback endpoint, served the call.
C8_FallbackServedAfterRetry ==
    /\ cpc = "returned"
    /\ response.provider = "fallback"
    /\ Len(PrimaryAttempts) = max_retries
    /\ n_primary = 2
    /\ Len(FallbackAttempts) = 2
    /\ FallbackAttempts[1].idx # FallbackAttempts[2].idx

\* C9: chat_completion returns a result only from an endpoint that
\* responded; when every attempt failed, or no pool has an endpoint, the
\* call ends with an error and returns nothing.
C9_ResultOnlyFromSuccess ==
    /\ cpc = "returned" =>
          /\ attempts # <<>>
          /\ attempts[Len(attempts)].outcome = "ok"
          /\ response # NoResponse
          /\ raised = "none"
    /\ response # NoResponse => cpc = "returned"
    /\ (CallEnded /\ \A i \in 1..Len(attempts) : attempts[i].outcome # "ok") =>
          /\ cpc = "raised"
          /\ raised # "none"
          /\ response = NoResponse

\* C9 case: both pools were tried max_retries times and all failed.
C9_BothPoolsExhausted ==
    /\ cpc = "raised"
    /\ raised = "EndpointsExhausted"
    /\ Len(PrimaryAttempts) = max_retries
    /\ Len(FallbackAttempts) = max_retries

\* C9 case: neither pool has an endpoint.
C9_NotConfigured ==
    /\ cpc = "raised"
    /\ raised = "NotConfigured"
    /\ attempts = <<>>

(***************************************************************************)
(* SpecValidate: validate_result on every parsed dict of the sample        *)
(***************************************************************************)
\* Confidences in hundredths, on both sides of each cap and out of range.
Confidences == {-20, 0, 30, 50, 55, 60, 65, 70, 90, 100, 150, NaN}
\* Explanation lengths on both sides of the 20 and 30 thresholds.
ExplanationLens == {0, 19, 20, 29, 30}
\* Evidence lengths on both sides of the 10 and 20 thresholds.
EvidenceLens == {0, 9, 10, 19, 20}
\* Disclosure lengths on both sides of the 10 threshold.
DisclosureLens == {0, 9, 10}

ParsedResults ==
    [status : StatusTexts,
     confidence : Confidences,
     explanation : [len : ExplanationLens, just : BOOLEAN],
     evidence : EvidenceLens,
     suggested_disclosure : DisclosureLens]

InitValidate ==
    /\ ExtraIdle
    /\ ClientIdle
    /\ EngineIdle
    /\ OrchIdle
    /\ result \in ParsedResults
    /\ context_available \in BOOLEAN
    /\ validated = NoResult
    /\ revalidated = NoResult
    /\ vpc = "parsed"

Validate ==
    /\ vpc = "parsed"
    /\ validated' = validate_result(result, context_available)
    /\ vpc' = "validated"
    /\ UNCHANGED <<result, context_available, revalidated>>
    /\ UNCHANGED <<clientVars, engineVars, orchVars, extraVars>>

Revalidate ==
    /\ vpc = "validated"
    /\ revalidated' = validate_result(validated, context_available)
    /\ vpc' = "revalidated"
    /\ UNCHANGED <<result, context_available, validated>>
    /\ UNCHANGED <<clientVars, engineVars, orchVars, extraVars>>

NextValidate == Validate \/ Revalidate

SpecValidate == InitValidate /\ [][NextValidate]_vars

\* C4: validate_result is idempotent: validating an already validated
\* result changes nothing (no confidence lowered, no status, explanation or
\* suggested disclosure changed).
C4_ValidateIdempotent == vpc = "revalidated" => revalidated = validated

\* C4 case: a synonym status escaped Rule 2 on the first pass and is caught
\* on the second.
C4_SecondPassLowers ==
    /\ vpc = "revalidated"
    /\ FloatLt(revalidated.confidence, validated.confidence)

(***************************************************************************)
(* parse_analysis_response and the AnalysisResult a batch builds           *)
(***************************************************************************)
\* float(text) of the CONFIDENCE line; a ValueError gives 0.0.
ParseFloat(text) ==
    CASE text = "0.9"  -> 90
      [] text = "0.3"  -> 30
      [] text = "1.5"  -> 150
      [] text = "-0.2" -> -20
      [] text = "nan"  -> NaN
      [] OTHER         -> 0

\* One ===RESULT_START=== block as parse_analysis_response returns it.
ParseBlock(block) ==
    [status |-> block.status,
     confidence |-> ParseFloat(block.confidence),
     explanation |-> block.explanation,
     evidence |-> block.evidence,
     suggested_disclosure |-> block.suggested_disclosure]

\* parsed_map.get(q_id, {}) found nothing: the block is missing.
Absent == [present |-> FALSE]

\* Mutant of MissingBlockResult: the defaults of AnalysisResult instead.
MissingBlockDefaults ==
    [status |-> "PENDING", confidence |-> 0,
     explanation |-> [len |-> 0, just |-> FALSE],
     evidence |-> 0, suggested_disclosure |-> 0]

\* The dict _process_single_batch uses for a question without a block;
\* its explanation is "AI did not return a result for this question.".
MissingBlockResult ==
    [status |-> "N/A", confidence |-> 30,
     explanation |-> [len |-> 45, just |-> FALSE],
     evidence |-> 0, suggested_disclosure |-> 0]

\* ComplianceStatus(status_str), NOT_APPLICABLE on ValueError.
ComplianceStatusOf(status_str) ==
    IF status_str \in {"YES", "NO", "N/A", "PENDING", "ERROR"}
    THEN status_str
    ELSE "N/A"

\* if parsed: validate_result(parsed, context_available) else the placeholder
ValidatedFor(block, ctx) ==
    IF block = Absent
    THEN MissingBlockResult
    ELSE validate_result(ParseBlock(block), ctx)

\* The AnalysisResult built for question q of a batch whose call returned.
BuildResult(q, block, snippets, sequence) ==
    LET v == ValidatedFor(block, snippets > 0)
    IN  [question_id |-> q.id,
         status |-> ComplianceStatusOf(v.status),
         confidence |-> v.confidence,
         explanation |-> v.explanation,
         evidence |-> v.evidence,
         suggested_disclosure |-> v.suggested_disclosure,
         context_used |-> snippets,
         sequence |-> sequence,
         error |-> "none"]

\* Mutant of ErrorResult: status and error are left at their defaults.
ErrorResultDefaults(q, sequence, e) ==
    [question_id |-> q.id,
     status |-> "PENDING",
     confidence |-> 0,
     explanation |-> [len |-> 0, just |-> FALSE],
     evidence |-> 0,
     suggested_disclosure |-> 0,
     context_used |-> 0,
     sequence |-> sequence,
     error |-> "none"]

\* The AnalysisResult built for question q of a batch whose call raised e.
ErrorResult(q, sequence, e) ==
    [question_id |-> q.id,
     status |-> "ERROR",
     confidence |-> 0,
     explanation |-> [len |-> 0, just |-> FALSE],
     evidence |-> 0,
     suggested_disclosure |-> 0,
     context_used |-> 0,
     sequence |-> sequence,
     error |-> e]

(***************************************************************************)
(* Two-phase sequencing                                                    *)
(***************************************************************************)
\* Mutant of Seq1Questions: the followups are not held back.
Seq1QuestionsAll(qs) == qs

\* seq1_questions: every question whose type is not "followup".
Seq1Questions(qs) == SelectSeq(qs, LAMBDA q : q.question_type # "followup")

\* seq2_questions: the followups.
Seq2Questions(qs) == SelectSeq(qs, LAMBDA q : q.question_type = "followup")

SetMax(S) == CHOOSE m \in S : \A k \in S : k <= m

\* seq1_result_map.get(id): the last result carrying that id, if any.
HasResult(rs, id) == \E i \in 1..Len(rs) : rs[i].question_id = id
ResultOf(rs, id) == rs[SetMax({i \in 1..Len(rs) : rs[i].question_id = id})]

\* Mutant of TriggerMatches: the trigger is not compared at all.
TriggerMatchesAlways(source_trigger, source_status) == TRUE

\* if source_trigger in (source_status, ""), source_trigger upper-cased.
TriggerMatches(source_trigger, source_status) ==
    Upper(source_trigger) \in {source_status, ""}

\* One iteration of the loop of _filter_triggered_followups.
IsTriggered(q, source_results) ==
    IF q.source_question = ""
    THEN TRUE
    ELSE /\ HasResult(source_results, q.source_question)
         /\ TriggerMatches(q.source_trigger,
                           ResultOf(source_results, q.source_question).status)

_filter_triggered_followups(followup_questions, source_results) ==
    SelectSeq(followup_questions, LAMBDA q : IsTriggered(q, source_results))

\* The list the running phase iterates over.
PhaseQuestions ==
    IF epc = "phase1" THEN Seq1Questions(questions) ELSE triggered

\* questions[i : i + self._batch_size]
BatchAt(qs, i) ==
    SubSeq(qs, i + 1, IF i + batch_size < Len(qs) THEN i + batch_size ELSE Len(qs))

Count(rs, status) == Cardinality({i \in 1..Len(rs) : rs[i].status = status})

\* The "complete" event of analyze_streaming; errors is len(progress.errors),
\* a list nothing appends to.
CompleteEvent(rs) ==
    [type |-> "complete",
     total |-> Len(rs),
     compliant |-> Count(rs, "YES"),
     non_compliant |-> Count(rs, "NO"),
     not_applicable |-> Count(rs, "N/A"),
     errors |-> 0,
     results |-> rs]

ProgressEvent(phase, completed) ==
    [type |-> "progress", phase |-> phase, completed_questions |-> completed]

ResultEvent(r) == [type |-> "result", data |-> r]


(***************************************************************************)
(* ComplianceAnalysisEngine.analyze / analyze_streaming                    *)
(***************************************************************************)
\* Questions per run and the largest batch size tried.
MaxQuestions == 3
MaxBatchSize == 2

S1 == [id |-> "S1", question_type |-> "source", source_question |-> "", source_trigger |-> ""]
I1 == [id |-> "I1", question_type |-> "independent", source_question |-> "", source_trigger |-> ""]
F1 == [id |-> "F1", question_type |-> "followup", source_question |-> "S1", source_trigger |-> "YES"]
F2 == [id |-> "F2", question_type |-> "followup", source_question |-> "S1", source_trigger |-> "no"]
F3 == [id |-> "F3", question_type |-> "followup", source_question |-> "", source_trigger |-> "YES"]
F4 == [id |-> "F4", question_type |-> "followup", source_question |-> "S1", source_trigger |-> ""]

\* The decision-tree items a run may be given, followups first and last.
Catalog == <<F1, S1, F2, I1, F3, F4>>

RECURSIVE PickFrom(_, _)
PickFrom(S, i) ==
    IF i > Len(Catalog) THEN <<>>
    ELSE (IF i \in S THEN <<Catalog[i]>> ELSE <<>>) \o PickFrom(S, i + 1)

QuestionLists ==
    {PickFrom(S, 1) : S \in {T \in SUBSET (1..Len(Catalog)) :
                                Cardinality(T) \in 1..MaxQuestions}}

\* The blocks a reply may hold for a question: a well-supported YES, a NO
\* under a synonym with an out-of-range confidence, a lower-case n/a with a
\* confidence of nan, a status of the enum that is no verdict, and a status
\* outside the synonym map with a negative confidence.
EngineBlocks ==
    {[present |-> TRUE, status |-> "YES", confidence |-> "0.9",
      explanation |-> [len |-> 30, just |-> FALSE], evidence |-> 20,
      suggested_disclosure |-> 0],
     [present |-> TRUE, status |-> "NON_COMPLIANT", confidence |-> "1.5",
      explanation |-> [len |-> 30, just |-> FALSE], evidence |-> 20,
      suggested_disclosure |-> 0],
     [present |-> TRUE, status |-> "n/a", confidence |-> "nan",
      explanation |-> [len |-> 19, just |-> FALSE], evidence |-> 0,
      suggested_disclosure |-> 0],
     [present |-> TRUE, status |-> "PENDING", confidence |-> "high",
      explanation |-> [len |-> 30, just |-> FALSE], evidence |-> 20,
      suggested_disclosure |-> 0],
     [present |-> TRUE, status |-> "MAYBE", confidence |-> "-0.2",
      explanation |-> [len |-> 30, just |-> FALSE], evidence |-> 20,
      suggested_disclosure |-> 0]}

\* len(search_results) for one question: nothing found, or something.
\* What the context search of one question meets: the answer of the remote
\* search call ("unconfigured" when there is no search client), and whether
\* the chunks of the document hold text matching the question.
SearchCases ==
    {[remote |-> "found",        local_match |-> TRUE],
     [remote |-> "failed",       local_match |-> TRUE],
     [remote |-> "unconfigured", local_match |-> TRUE],
     [remote |-> "unconfigured", local_match |-> FALSE]}

\* SearchService.search: the hits, or [] when the call raised.
search(remote) == IF remote = "found" THEN 1 ELSE 0

\* SearchService.search_for_context_local: the chunks scoring above 0.
search_for_context_local(local_match) == IF local_match THEN 1 ELSE 0

\* The context search of _process_single_batch: the remote search when the
\* service is available, the local chunks otherwise; the number of snippets.
SearchContext(is_available, c) ==
    IF is_available
    THEN search(c.remote)
    ELSE search_for_context_local(c.local_match)

\* The cases a search service of the given availability can meet.
CasesFor(Cases, is_available) ==
    {c \in Cases : (c.remote # "unconfigured") = is_available}

\* What chat_completion raises (caught by except Exception around the call).
CallErrors == {"EndpointsExhausted", "OtherError"}

\* The two progress events analyze_streaming yields before phase 1.
StartEvents(m) ==
    IF m = "analyze_streaming"
    THEN <<ProgressEvent("preparing", 0), ProgressEvent("sequence_1", 0)>>
    ELSE <<>>

InitEngine ==
    /\ ExtraIdle
    /\ ValidateIdle
    /\ ClientIdle
    /\ OrchQuiet
    /\ search_available \in BOOLEAN
    /\ questions \in QuestionLists
    /\ batch_size \in 1..MaxBatchSize
    /\ mode \in {"analyze", "analyze_streaming"}
    /\ epc = "phase1"
    /\ next_i = 0
    /\ triggered = <<>>
    /\ inflight = NoBatch
    /\ pending = <<>>
    /\ results = <<>>
    /\ events = StartEvents(mode)
    /\ llm_calls = <<>>

EngineRunning == epc \in {"phase1", "phase2"}
CurrentSequence == IF epc = "phase1" THEN 1 ELSE 2

\* _process_single_batch up to the chat_completion call: the context search
\* of every question of the next batch, the prompt, the call.
DispatchBatchWith(Cases) ==
    /\ EngineRunning /\ inflight = NoBatch /\ pending = <<>>
    /\ next_i < Len(PhaseQuestions)
    /\ LET batch == BatchAt(PhaseQuestions, next_i)
       IN  \E cases \in [1..Len(batch) -> CasesFor(Cases, search_available)] :
             LET ctx == [i \in 1..Len(batch) |->
                            SearchContext(search_available, cases[i])]
             IN  /\ inflight' = [sequence |-> CurrentSequence, batch |-> batch,
                                 contexts |-> ctx]
                 /\ llm_calls' = Append(llm_calls,
                        [sequence |-> CurrentSequence, batch |-> batch,
                         searches |-> cases, contexts |-> ctx,
                         outcome |-> "inflight", reply |-> <<>>])
    /\ UNCHANGED <<questions, batch_size, mode, epc, next_i, triggered, pending,
                   results, events>>
    /\ UNCHANGED <<valVars, clientVars, orchVars, extraVars>>

\* The batch results go to the caller: extended onto results by
\* _analyze_batch, or yielded one at a time by _analyze_batch_streaming.
Deliver(batch_results, outcome, reply) ==
    /\ llm_calls' = [llm_calls EXCEPT ![Len(llm_calls)].outcome = outcome,
                                      ![Len(llm_calls)].reply = reply]
    /\ inflight' = NoBatch
    /\ next_i' = next_i + batch_size
    /\ IF mode = "analyze"
       THEN results' = results \o batch_results /\ pending' = pending
       ELSE pending' = batch_results /\ results' = results
    /\ UNCHANGED <<questions, batch_size, mode, epc, triggered, events>>
    /\ UNCHANGED <<valVars, clientVars, orchVars, extraVars>>

\* chat_completion raised: an ERROR result for every question of the batch.
BatchCallFailsWith(Errors) ==
    /\ inflight # NoBatch
    /\ \E e \in Errors :
         Deliver([i \in 1..Len(inflight.batch) |->
                     ErrorResult(inflight.batch[i], inflight.sequence, e)],
                 e, <<>>)

\* chat_completion returned text: parse, validate, build the results.
BatchCallReturnsWith(Blocks) ==
    /\ inflight # NoBatch
    /\ \E blocks \in [1..Len(inflight.batch) -> Blocks] :
         Deliver([i \in 1..Len(inflight.batch) |->
                     BuildResult(inflight.batch[i], blocks[i],
                                 inflight.contexts[i], inflight.sequence)],
                 "ok", blocks)

\* chat_completion returned a content of None: RESULT_BLOCK_RE.findall
\* raises TypeError outside the try, and the exception leaves the engine.
BatchCallReturnsNull ==
    /\ inflight # NoBatch
    /\ llm_calls' = [llm_calls EXCEPT ![Len(llm_calls)].outcome = "null"]
    /\ inflight' = NoBatch
    /\ epc' = "failed"
    /\ UNCHANGED <<questions, batch_size, mode, next_i, triggered, pending,
                   results, events>>
    /\ UNCHANGED <<valVars, clientVars, orchVars, extraVars>>

\* analyze_streaming takes the next result of the batch: it is appended to
\* all_results and yielded, followed by a progress event.
YieldResult ==
    /\ pending # <<>>
    /\ results' = Append(results, Head(pending))
    /\ pending' = Tail(pending)
    /\ events' = events \o
           <<ResultEvent(Head(pending)),
             ProgressEvent(IF epc = "phase1" THEN "sequence_1" ELSE "sequence_2",
                           Len(results) + 1)>>
    /\ UNCHANGED <<questions, batch_size, mode, epc, next_i, triggered,
                   inflight, llm_calls>>
    /\ UNCHANGED <<valVars, clientVars, orchVars, extraVars>>

\* Phase 1 is over: the followups are filtered on its results.
Phase1End ==
    /\ epc = "phase1" /\ inflight = NoBatch /\ pending = <<>>
    /\ next_i >= Len(Seq1Questions(questions))
    /\ LET seq2 == Seq2Questions(questions)
           kept == _filter_triggered_followups(seq2, results)
       IN  IF mode = "analyze"
           THEN /\ IF seq2 # <<>> /\ kept # <<>>
                   THEN epc' = "phase2" /\ triggered' = kept
                   ELSE epc' = "done" /\ triggered' = triggered
                /\ events' = events
           ELSE IF seq2 # <<>>
                THEN /\ epc' = "phase2"
                     /\ triggered' = kept
                     /\ events' = Append(events, ProgressEvent("sequence_2", Len(results)))
                ELSE /\ epc' = "done"
                     /\ triggered' = triggered
                     /\ events' = Append(events, CompleteEvent(results))
    /\ next_i' = 0
    /\ UNCHANGED <<questions, batch_size, mode, inflight, pending, results, llm_calls>>
    /\ UNCHANGED <<valVars, clientVars, orchVars, extraVars>>

\* Phase 2 is over: analyze returns, analyze_streaming yields "complete".
Phase2End ==
    /\ epc = "phase2" /\ inflight = NoBatch /\ pending = <<>>
    /\ next_i >= Len(triggered)
    /\ epc' = "done"
    /\ events' = IF mode = "analyze" THEN events
                 ELSE Append(events, CompleteEvent(results))
    /\ UNCHANGED <<questions, batch_size, mode, next_i, triggered, inflight,
                   pending, results, llm_calls>>
    /\ UNCHANGED <<valVars, clientVars, orchVars, extraVars>>

DispatchBatch == DispatchBatchWith(SearchCases)
BatchCallFails == BatchCallFailsWith(CallErrors)
\* What a reply can hold for one question: one of the blocks, or none.
ReplyBlocks == EngineBlocks \cup {Absent}
BatchCallReturns == BatchCallReturnsWith(ReplyBlocks)

NextEngine ==
    \/ DispatchBatch
    \/ BatchCallFails
    \/ BatchCallReturns
    \/ BatchCallReturnsNull
    \/ YieldResult
    \/ Phase1End
    \/ Phase2End

SpecEngine == InitEngine /\ [][NextEngine]_vars


(***************************************************************************)
(* Properties of the engine                                                *)
(***************************************************************************)
InBatch(batch, id) == \E i \in 1..Len(batch) : batch[i].id = id
HasFollowup(batch) == \E i \in 1..Len(batch) : batch[i].question_type = "followup"
Phase1Ids == {questions[i].id : i \in {j \in 1..Len(questions) :
                                          questions[j].question_type # "followup"}}
FollowupQs == {questions[i] : i \in {j \in 1..Len(questions) :
                                        questions[j].question_type = "followup"}}
\* Every result built so far, delivered to the caller or about to be.
Built == results \o pending
ResultEvents == SelectSeq(events, LAMBDA e : e.type = "result")

\* C1: no batch containing a followup is dispatched before every source or
\* independent question of the run has been sent in an earlier batch whose
\* call has returned and whose result is with the caller; and in the result
\* list, as in the emitted result events, no sequence-2 result comes before
\* a sequence-1 result.
C1_PhaseOrder ==
    /\ \A k \in 1..Len(llm_calls) :
         HasFollowup(llm_calls[k].batch) =>
           \A id \in Phase1Ids :
             /\ \E j \in 1..(k - 1) :
                  /\ InBatch(llm_calls[j].batch, id)
                  /\ llm_calls[j].sequence = 1
                  /\ llm_calls[j].outcome \in {"ok"} \cup CallErrors
             /\ \E i \in 1..Len(results) :
                  results[i].question_id = id /\ results[i].sequence = 1
    /\ \A i \in 1..Len(results) : \A j \in (i + 1)..Len(results) :
         results[i].sequence <= results[j].sequence
    /\ \A i \in 1..Len(ResultEvents) : \A j \in (i + 1)..Len(ResultEvents) :
         ResultEvents[i].data.sequence <= ResultEvents[j].data.sequence

\* A streaming run with two phase-1 batches and a followup analysed after them.
C1_TwoPhasesRan ==
    /\ epc = "done" /\ mode = "analyze_streaming"
    /\ Cardinality({k \in 1..Len(llm_calls) : llm_calls[k].sequence = 1}) >= 2
    /\ \E k \in 1..Len(llm_calls) :
         llm_calls[k].sequence = 2 /\ HasFollowup(llm_calls[k].batch)
    /\ \E i \in 1..Len(ResultEvents) : ResultEvents[i].data.sequence = 2

Phase1ResultFor(id) ==
    {results[i] : i \in {j \in 1..Len(results) :
                            results[j].question_id = id /\ results[j].sequence = 1}}
AnalysedInPhase2(q) ==
    \E i \in 1..Len(results) :
        results[i].question_id = q.id /\ results[i].sequence = 2
Analysed(q) == \E i \in 1..Len(results) : results[i].question_id = q.id

C3_NoContextForced ==
    \A i \in 1..Len(Built) :
      (Built[i].error = "none" /\ Built[i].context_used = 0) =>
        /\ Built[i].status = "N/A"
        /\ Built[i].confidence # NaN
        /\ Built[i].confidence <= 50

\* A result without context whose confidence is nan.
C3_NaNWithoutContext ==
    \E i \in 1..Len(Built) :
      /\ Built[i].error = "none" /\ Built[i].context_used = 0
      /\ Built[i].status = "N/A" /\ Built[i].confidence = NaN

\* C10: when the call of a batch fails, every question of that batch has a
\* result of status ERROR carrying the error; a result carries an error only
\* if the call of its own batch failed with it; a failed call never ends
\* the run; and a finished run has sent every source or independent question
\* and every triggered followup to the model, whatever calls failed.
C10_FailedBatchIsolated ==
    /\ \A k \in 1..Len(llm_calls) :
         llm_calls[k].outcome \in CallErrors =>
           \A n \in 1..Len(llm_calls[k].batch) :
             \E i \in 1..Len(Built) :
               /\ Built[i].question_id = llm_calls[k].batch[n].id
               /\ Built[i].sequence = llm_calls[k].sequence
               /\ Built[i].status = "ERROR"
               /\ Built[i].error = llm_calls[k].outcome
    /\ \A i \in 1..Len(Built) :
         Built[i].error # "none" =>
           \E k \in 1..Len(llm_calls) :
             /\ InBatch(llm_calls[k].batch, Built[i].question_id)
             /\ llm_calls[k].sequence = Built[i].sequence
             /\ llm_calls[k].outcome = Built[i].error
    /\ epc = "failed" => llm_calls[Len(llm_calls)].outcome = "null"
    /\ epc = "done" =>
         /\ \A id \in Phase1Ids :
              \E k \in 1..Len(llm_calls) :
                llm_calls[k].sequence = 1 /\ InBatch(llm_calls[k].batch, id)
         /\ \A q \in FollowupQs :
              IsTriggered(q, SelectSeq(results, LAMBDA r : r.sequence = 1)) =>
                \E k \in 1..Len(llm_calls) :
                  llm_calls[k].sequence = 2 /\ InBatch(llm_calls[k].batch, q.id)

\* A finished run whose first call failed, followed by a call of the same
\* phase that succeeded and by a call of phase 2.
C10_ContinuedAfterFailure ==
    /\ epc = "done"
    /\ Len(llm_calls) >= 3
    /\ llm_calls[1].outcome = "EndpointsExhausted"
    /\ llm_calls[2].sequence = 1 /\ llm_calls[2].outcome = "ok"
    /\ llm_calls[3].sequence = 2
    /\ \E i \in 1..Len(results) :
         results[i].status = "ERROR" /\ results[i].error = "EndpointsExhausted"
    /\ \E i \in 1..Len(results) : results[i].status = "YES"


(***************************************************************************)
(* ComplianceOrchestrator: inputs, keys and tables                         *)
(***************************************************************************)
\* Runs started, and standards selected per session.
MaxRuns == 2
MaxSelected == 2

\* ComplianceAnalysisEngine.__init__(batch_size=5), as the orchestrator builds it.
DefaultBatchSize == 5

Standards == {"IAS_1", "IAS_2"}

\* The items of a decision-tree section: a source question in one standard,
\* a followup to it in the other.
StandardItems(key) == IF key = "IAS_1" THEN <<S1>> ELSE <<F2>>

\* session.selected_standards: any list of standard keys, repeats included.
Selections == UNION {[1..n -> Standards] : n \in 0..MaxSelected}

RECURSIVE get_items_for_standards(_)
get_items_for_standards(standard_keys) ==
    IF Len(standard_keys) = 0 THEN <<>>
    ELSE StandardItems(standard_keys[1]) \o
         get_items_for_standards(SubSeq(standard_keys, 2, Len(standard_keys)))

\* question_ids = [q.get("id", "") for q in questions]
IdsOf(qs) == [i \in 1..Len(qs) |-> qs[i].id]

\* The extracted text of the session's documents: none, or one of two reports.
Texts == {"", "Annual  Report", "Other", "<unreadable>"}

\* self._extractor.extract raises: the file cannot be opened or parsed.
Unreadable(text) == text = "<unreadable>"

\* not combined_text.strip()
NoText(text) == text = ""

\* generate_document_hash: sha256 of the text stripped, lower-cased and with
\* runs of white space collapsed; the digest is named by the text it is of.
generate_document_hash(text) ==
    CASE text = "Annual  Report" -> "sha256(annual report)"
      [] text = "Other"          -> "sha256(other)"
      [] OTHER                   -> "sha256()"

\* session.framework: the column's default.
Frameworks == {"IFRS"}

\* session.framework or "IFRS"
FrameworkOrDefault(framework) == IF framework = "" THEN "IFRS" ELSE framework

\* uuid4().hex[:12]: any twelve hex digits, a value drawn before included.
\* Ids are named by numbers: the n-th run draws a new id (n) or the id an
\* earlier run drew.
JobIds(n) == 1..n

\* Python's order on the question ids.
IdRank(id) ==
    CASE id = "F1" -> 1 [] id = "F2" -> 2 [] id = "F3" -> 3
      [] id = "F4" -> 4 [] id = "I1" -> 5 [] id = "S1" -> 6

RECURSIVE InsertSorted(_, _)
InsertSorted(id, sorted) ==
    IF sorted = <<>> THEN <<id>>
    ELSE IF IdRank(id) <= IdRank(Head(sorted)) THEN <<id>> \o sorted
    ELSE <<Head(sorted)>> \o InsertSorted(id, Tail(sorted))

\* sorted(question_ids)
RECURSIVE Sorted(_)
Sorted(ids) ==
    IF Len(ids) = 0 THEN <<>>
    ELSE InsertSorted(ids[1], Sorted(SubSeq(ids, 2, Len(ids))))

\* Mutant of _compute_questions_hash: the ids are joined in selection order.
_compute_questions_hash_unsorted(ids) == <<"sha256">> \o ids

\* sha256("|".join(sorted(question_ids))): the digest is named by the joined
\* list it is of.
_compute_questions_hash(ids) == <<"sha256">> \o Sorted(ids)

\* filter_by(document_hash=..., framework=..., questions_hash=...)
CacheRows(dh, fw, qh) ==
    {row \in cache : /\ row.document_hash = dh
                     /\ row.framework = fw
                     /\ row.questions_hash = qh}

\* _lookup_cache on a row it found: access_count += 1.
Touch(row) == (cache \ {row}) \cup {[row EXCEPT !.access_count = @ + 1]}

\* _save_cache: update the row of the key if there is one, else add a row
\* (access_count defaults to 1).
_save_cache(dh, fw, qh, rs) ==
    IF CacheRows(dh, fw, qh) # {}
    THEN LET existing == CHOOSE row \in CacheRows(dh, fw, qh) : TRUE
         IN  (cache \ {existing}) \cup
             {[existing EXCEPT !.results = rs, !.access_count = @ + 1]}
    ELSE cache \cup {[document_hash |-> dh, framework |-> fw,
                      questions_hash |-> qh, results |-> rs,
                      access_count |-> 1]}

\* _init_progress_rows: a pending row for every id that has none in the job.
_init_progress_rows(rows, job, ids) ==
    rows \cup
    {[job_id |-> job, question_id |-> id, status |-> "pending", result |-> <<>>] :
        id \in {ids[i] : i \in {j \in 1..Len(ids) :
                   ~\E row \in rows : row.job_id = job /\ row.question_id = ids[j]}}}

\* _mark_progress
_mark_progress(rows, job, qid, status, r) ==
    {IF row.job_id = job /\ row.question_id = qid
     THEN [row EXCEPT !.status = status, !.result = <<r>>]
     ELSE row : row \in rows}

\* COMPLETED if not err else FAILED
ProgStatus(r) == IF r.error = "none" THEN "completed" ELSE "failed"

\* The loop of _execute_pipeline marking a row for every result.
RECURSIVE MarkAll(_, _, _)
MarkAll(rows, job, rs) ==
    IF rs = <<>> THEN rows
    ELSE MarkAll(_mark_progress(rows, job, Head(rs).question_id,
                                ProgStatus(Head(rs)), Head(rs)),
                 job, Tail(rs))

\* _get_completed_question_ids
_get_completed_question_ids(rows, job) ==
    {row.question_id : row \in {x \in rows : x.job_id = job /\ x.status = "completed"}}

\* status_map of persist_results_to_db
DbStatus(status) ==
    CASE status = "YES" -> "compliant"
      [] status = "NO"  -> "non_compliant"
      [] status = "N/A" -> "not_applicable"
      [] status = "ERROR" -> "error"
      [] OTHER -> "pending"

\* persist_results_to_db: upsert by question_id, in the order of the results.
RECURSIVE persist_results_to_db(_, _)
persist_results_to_db(rows, rs) ==
    IF rs = <<>> THEN rows
    ELSE persist_results_to_db(
            {row \in rows : row.question_id # Head(rs).question_id} \cup
            {[question_id |-> Head(rs).question_id,
              status |-> DbStatus(Head(rs).status),
              sequence |-> Head(rs).sequence]},
            Tail(rs))

\* Mutant of StatusEvent: every stage announces itself as "extracting".
StatusEventStuck(st) == [type |-> "status", status |-> "extracting"]

\* {"type": "status", "data": {"status": st, ...}}
StatusEvent(st) == [type |-> "status", status |-> st]
ErrorEvent == [type |-> "error"]

\* Mutant of ReplayEvents: a hit yields no result event.
ReplayNothing(rs) == <<>>

\* for r in result_list: yield {"type": "result", "data": r}
ReplayEvents(rs) == [i \in 1..Len(rs) |-> ResultEvent(rs[i])]

\* The "complete" event of a cache hit.
HitCompleteEvent(rs) ==
    [type |-> "complete",
     total |-> Len(rs),
     compliant |-> Count(rs, "YES"),
     non_compliant |-> Count(rs, "NO"),
     not_applicable |-> Count(rs, "N/A"),
     errors |-> 0,
     results |-> rs,
     cache_hit |-> TRUE]

\* The blocks, snippet counts and call errors the runs are explored with.
OrchBlocks == {b \in EngineBlocks : b.status \in {"YES", "NON_COMPLIANT"}}
OrchSearchCases ==
    {[remote |-> "found",        local_match |-> TRUE],
     [remote |-> "unconfigured", local_match |-> TRUE]}
OrchCallErrors == {"EndpointsExhausted"}


(***************************************************************************)
(* ComplianceOrchestrator.run / run_streaming                              *)
(***************************************************************************)
Streaming == run_mode = "run_streaming"

InitOrch ==
    /\ ExtraIdle
    /\ ValidateIdle
    /\ ClientIdle
    /\ EngineIdle
    /\ search_available \in BOOLEAN
    /\ opc = "idle"
    /\ runs = 0
    /\ run_mode = "run"
    /\ session = NoSession
    /\ job_id = NoJob
    /\ already_done = {}
    /\ stages = <<>>
    /\ document_hash = "none"
    /\ question_ids = <<>>
    /\ cache = {}
    /\ progress_rows = {}
    /\ persisted = {}
    /\ stream = <<>>
    /\ consumed = 0
    /\ returned = <<>>

\* The stream after one more event (run yields nothing).
Yield(evs) == IF Streaming THEN stream \o evs ELSE stream

\* What a finished run returned or emitted, as its caller saw it.
Outcome(outcome, hit, written, rs, replayed, done_stages) ==
    [mode |-> run_mode,
     text |-> session.text,
     framework |-> session.framework,
     ids |-> IdsOf(get_items_for_standards(session.selected_standards)),
     job_id |-> job_id,
     outcome |-> outcome,
     cache_hit |-> hit,
     cache_written |-> written,
     results |-> rs,
     replayed |-> replayed,
     analysis_calls |-> Len(llm_calls),
     stages |-> done_stages]

\* run / run_streaming up to the first stage: the session is loaded and set
\* to "analyzing"; run_streaming draws its job_id and yields "extracting".
\* Each run is given a session of its own.
StartRun ==
    /\ opc = "idle" /\ runs < MaxRuns
    /\ \E m \in {"run", "run_streaming"}, text \in Texts, fw \in Frameworks,
          sel \in Selections :
         /\ run_mode' = m
         /\ session' = [text |-> text, framework |-> fw,
                        selected_standards |-> sel, status |-> "analyzing",
                        analysis_results |-> <<>>]
         /\ IF m = "run_streaming"
            THEN /\ job_id' \in JobIds(runs + 1)
                 /\ stream' = <<StatusEvent("extracting")>>
            ELSE /\ job_id' = NoJob
                 /\ stream' = <<>>
    /\ runs' = runs + 1
    /\ opc' = "extracting"
    /\ stages' = <<>>
    /\ already_done' = {}
    /\ document_hash' = "none"
    /\ question_ids' = <<>>
    /\ persisted' = {}
    /\ consumed' = 0
    /\ questions' = <<>> /\ batch_size' = DefaultBatchSize /\ mode' = "analyze"
    /\ epc' = "off" /\ next_i' = 0 /\ triggered' = <<>> /\ inflight' = NoBatch
    /\ pending' = <<>> /\ results' = <<>> /\ events' = <<>> /\ llm_calls' = <<>>
    /\ UNCHANGED <<search_available, cache, progress_rows, returned>>
    /\ UNCHANGED <<valVars, clientVars, extraVars>>

\* Stage 2, extraction.  Without text run raises ValueError (its except sets
\* the session to "failed"); run_streaming yields an error event and returns.
Extract ==
    /\ opc = "extracting" /\ ~Unreadable(session.text)
    /\ stages' = Append(stages, "extract")
    /\ IF NoText(session.text)
       THEN /\ opc' = "idle"
            /\ session' = IF Streaming THEN session
                          ELSE [session EXCEPT !.status = "failed"]
            /\ stream' = Yield(<<ErrorEvent>>)
            /\ returned' = Append(returned,
                   Outcome("failed", FALSE, FALSE, <<>>, <<>>, stages'))
       ELSE /\ opc' = "chunking"
            /\ stream' = Yield(<<StatusEvent("chunking")>>)
            /\ UNCHANGED <<session, returned>>
    /\ UNCHANGED <<search_available, runs, run_mode, job_id, already_done,
                   document_hash, question_ids, cache, progress_rows,
                   persisted, consumed>>
    /\ UNCHANGED <<valVars, clientVars, engineVars, extraVars>>

\* Stage 2 raises: run sets the session to "failed" and re-raises,
\* run_streaming sets it to "failed" and yields an error event.
ExtractRaises ==
    /\ opc = "extracting" /\ Unreadable(session.text)
    /\ stages' = Append(stages, "extract")
    /\ opc' = "idle"
    /\ session' = [session EXCEPT !.status = "failed"]
    /\ stream' = Yield(<<ErrorEvent>>)
    /\ returned' = Append(returned,
           Outcome("failed", FALSE, FALSE, <<>>, <<>>, stages'))
    /\ UNCHANGED <<search_available, runs, run_mode, job_id, already_done,
                   document_hash, question_ids, cache, progress_rows,
                   persisted, consumed>>
    /\ UNCHANGED <<valVars, clientVars, engineVars, extraVars>>

\* Stage 3, chunking: the document hash and the chunks.
Chunk ==
    /\ opc = "chunking"
    /\ document_hash' = generate_document_hash(session.text)
    /\ stages' = Append(stages, "chunk")
    /\ stream' = Yield(<<StatusEvent("indexing")>>)
    /\ opc' = "indexing"
    /\ UNCHANGED <<search_available, runs, run_mode, session, job_id,
                   already_done, question_ids, cache, progress_rows, persisted,
                   consumed, returned>>
    /\ UNCHANGED <<valVars, clientVars, engineVars, extraVars>>

\* Stage 4: index_chunks when the search service is available, else the
\* chunks are handed to the engine for local matching.
Index ==
    /\ opc = "indexing"
    /\ stages' = Append(stages, IF search_available THEN "index" ELSE "local_chunks")
    /\ stream' = Yield(<<StatusEvent("metadata")>>)
    /\ opc' = "metadata"
    /\ UNCHANGED <<search_available, runs, run_mode, session, job_id,
                   already_done, document_hash, question_ids, cache,
                   progress_rows, persisted, consumed, returned>>
    /\ UNCHANGED <<valVars, clientVars, engineVars, extraVars>>

\* Stage 5: extract_metadata, one LLM call whose failure is swallowed.
Metadata ==
    /\ opc = "metadata"
    /\ stages' = Append(stages, "metadata")
    /\ opc' = "loading"
    /\ UNCHANGED <<search_available, runs, run_mode, session, job_id,
                   already_done, document_hash, question_ids, cache,
                   progress_rows, persisted, stream, consumed, returned>>
    /\ UNCHANGED <<valVars, clientVars, engineVars, extraVars>>

\* Stage 6 locals.
LoadedQuestions == get_items_for_standards(session.selected_standards)
LoadedIds == IdsOf(LoadedQuestions)
CacheKeyRows ==
    CacheRows(document_hash, FrameworkOrDefault(session.framework),
              _compute_questions_hash(LoadedIds))
\* run raises ValueError on an empty selection or question list;
\* run_streaming has no such test.
NothingToAnalyse ==
    ~Streaming /\ (Len(session.selected_standards) = 0 \/ Len(LoadedQuestions) = 0)

\* Stage 6 of run with nothing selected: ValueError, the session is "failed".
LoadFails ==
    /\ opc = "loading" /\ NothingToAnalyse
    /\ session' = [session EXCEPT !.status = "failed"]
    /\ returned' = Append(returned,
           Outcome("failed", FALSE, FALSE, <<>>, <<>>, stages))
    /\ opc' = "idle"
    /\ UNCHANGED <<search_available, runs, run_mode, job_id, already_done,
                   stages, document_hash, question_ids, cache, progress_rows,
                   persisted, stream, consumed>>
    /\ UNCHANGED <<valVars, clientVars, engineVars, extraVars>>

\* The cache has a row for the key: it is touched, stored on the session and,
\* in run_streaming, replayed; the run ends.
CacheHit ==
    /\ opc = "loading" /\ ~NothingToAnalyse
    /\ \E row \in CacheKeyRows :
         /\ cache' = Touch(row)
         /\ session' = [session EXCEPT !.status = "completed",
                                       !.analysis_results = row.results]
         /\ stream' = Yield(<<StatusEvent("cache_hit")>> \o
                            ReplayEvents(row.results) \o
                            <<HitCompleteEvent(row.results)>>)
         /\ returned' = Append(returned,
                Outcome("completed", TRUE, FALSE, row.results,
                        IF Streaming
                        THEN [i \in 1..Len(ReplayEvents(row.results)) |->
                                 ReplayEvents(row.results)[i].data]
                        ELSE <<>>,
                        stages))
    /\ question_ids' = LoadedIds
    /\ opc' = "idle"
    /\ UNCHANGED <<search_available, runs, run_mode, job_id, already_done,
                   stages, document_hash, progress_rows, persisted, consumed>>
    /\ UNCHANGED <<valVars, clientVars, engineVars, extraVars>>

\* No row for the key: run draws its job_id; the progress rows are created,
\* run_streaming reads already_done, and the engine is given every question.
CacheMiss ==
    /\ opc = "loading" /\ ~NothingToAnalyse
    /\ CacheKeyRows = {}
    /\ IF Streaming THEN job_id' = job_id ELSE job_id' \in JobIds(runs)
    /\ progress_rows' = _init_progress_rows(progress_rows, job_id', LoadedIds)
    /\ already_done' = IF Streaming
                       THEN _get_completed_question_ids(progress_rows', job_id')
                       ELSE already_done
    /\ stream' = Yield(<<StatusEvent("analyzing")>>)
    /\ question_ids' = LoadedIds
    /\ questions' = LoadedQuestions
    /\ batch_size' = DefaultBatchSize
    /\ mode' = IF Streaming THEN "analyze_streaming" ELSE "analyze"
    /\ epc' = "phase1"
    /\ next_i' = 0
    /\ triggered' = <<>>
    /\ inflight' = NoBatch
    /\ pending' = <<>>
    /\ results' = <<>>
    /\ events' = StartEvents(mode')
    /\ llm_calls' = <<>>
    /\ consumed' = 0
    /\ opc' = "analyzing"
    /\ UNCHANGED <<search_available, runs, run_mode, session, stages,
                   document_hash, cache, persisted, returned>>
    /\ UNCHANGED <<valVars, clientVars, extraVars>>

\* The engine runs only while the run waits for it: analyze_streaming is a
\* generator, resumed when its last event has been taken.
EngineTurn == opc = "analyzing" /\ consumed = Len(events)

OrchDispatchBatch == EngineTurn /\ DispatchBatchWith(OrchSearchCases)
OrchBatchCallFails == EngineTurn /\ BatchCallFailsWith(OrchCallErrors)
OrchBatchCallReturns == EngineTurn /\ BatchCallReturnsWith(OrchBlocks)
OrchBatchCallReturnsNull == EngineTurn /\ BatchCallReturnsNull
OrchYieldResult == EngineTurn /\ YieldResult
OrchPhase1End == EngineTurn /\ Phase1End
OrchPhase2End == EngineTurn /\ Phase2End

\* run_streaming takes the next event of analyze_streaming: a result of a
\* question in already_done is dropped; any other result marks its progress
\* row and is yielded; a progress event is yielded.
ConsumeEvent ==
    /\ opc = "analyzing" /\ Streaming /\ consumed < Len(events)
    /\ LET event == events[consumed + 1]
       IN  /\ event.type # "complete"
           /\ IF event.type = "result"
              THEN IF event.data.question_id \in already_done
                   THEN UNCHANGED <<progress_rows, stream>>
                   ELSE /\ progress_rows' =
                             _mark_progress(progress_rows, job_id,
                                            event.data.question_id,
                                            ProgStatus(event.data), event.data)
                        /\ stream' = Append(stream, event)
              ELSE /\ stream' = Append(stream, event)
                   /\ UNCHANGED progress_rows
    /\ consumed' = consumed + 1
    /\ UNCHANGED <<search_available, opc, runs, run_mode, session, job_id,
                   already_done, stages, document_hash, question_ids, cache,
                   persisted, returned>>
    /\ UNCHANGED <<valVars, clientVars, engineVars, extraVars>>

\* Mutant of Finish: a failed cache write is not caught, and the run fails.
FinishPropagates(rs, replayed) ==
    /\ \E cache_ok \in BOOLEAN, persist_ok \in BOOLEAN :
         /\ session' = [session EXCEPT
                          !.status = IF cache_ok THEN "completed" ELSE "failed",
                          !.analysis_results = rs]
         /\ cache' = IF cache_ok
                     THEN _save_cache(document_hash,
                                      FrameworkOrDefault(session.framework),
                                      _compute_questions_hash(question_ids), rs)
                     ELSE cache
         /\ persisted' = IF persist_ok /\ cache_ok
                         THEN persist_results_to_db(persisted, rs)
                         ELSE persisted
         /\ returned' = Append(returned,
                Outcome(IF cache_ok THEN "completed" ELSE "failed",
                        FALSE, cache_ok, rs, replayed, stages))
    /\ opc' = "idle"

\* The end of a run that analysed: the results go to the session; the cache
\* row and the ComplianceResult rows are written, each in a try whose
\* failure is logged and swallowed.
Finish(rs, replayed) ==
    /\ session' = [session EXCEPT !.status = "completed", !.analysis_results = rs]
    /\ \E cache_ok \in BOOLEAN, persist_ok \in BOOLEAN :
         /\ cache' = IF cache_ok
                     THEN _save_cache(document_hash,
                                      FrameworkOrDefault(session.framework),
                                      _compute_questions_hash(question_ids), rs)
                     ELSE cache
         /\ persisted' = IF persist_ok
                         THEN persist_results_to_db(persisted, rs)
                         ELSE persisted
         /\ returned' = Append(returned,
                Outcome("completed", FALSE, cache_ok, rs, replayed, stages))
    /\ opc' = "idle"

\* run_streaming takes the "complete" event.
StreamComplete ==
    /\ opc = "analyzing" /\ Streaming /\ consumed < Len(events)
    /\ LET event == events[consumed + 1]
       IN  /\ event.type = "complete"
           /\ stream' = Append(stream, event)
           /\ Finish(event.results,
                     LET evs == SelectSeq(stream, LAMBDA e : e.type = "result")
                     IN  [i \in 1..Len(evs) |-> evs[i].data])
    /\ consumed' = consumed + 1
    /\ UNCHANGED <<search_available, runs, run_mode, job_id, already_done,
                   stages, document_hash, question_ids, progress_rows>>
    /\ UNCHANGED <<valVars, clientVars, engineVars, extraVars>>

\* analyze has returned to _execute_pipeline: a progress row is marked for
\* every result, then the results are stored.
SyncComplete ==
    /\ opc = "analyzing" /\ ~Streaming /\ epc = "done"
    /\ progress_rows' = MarkAll(progress_rows, job_id, results)
    /\ Finish(results, <<>>)
    /\ UNCHANGED <<search_available, runs, run_mode, job_id, already_done,
                   stages, document_hash, question_ids, stream, consumed>>
    /\ UNCHANGED <<valVars, clientVars, engineVars, extraVars>>

\* The engine raised: the session is "failed"; run re-raises, run_streaming
\* yields an error event.
RunFails ==
    /\ EngineTurn /\ epc = "failed"
    /\ session' = [session EXCEPT !.status = "failed"]
    /\ stream' = Yield(<<ErrorEvent>>)
    /\ returned' = Append(returned,
           Outcome("failed", FALSE, FALSE, <<>>,
                   LET evs == SelectSeq(stream, LAMBDA e : e.type = "result")
                   IN  [i \in 1..Len(evs) |-> evs[i].data],
                   stages))
    /\ opc' = "idle"
    /\ UNCHANGED <<search_available, runs, run_mode, job_id, already_done,
                   stages, document_hash, question_ids, cache, progress_rows,
                   persisted, consumed>>
    /\ UNCHANGED <<valVars, clientVars, engineVars, extraVars>>

NextOrch ==
    \/ StartRun
    \/ Extract
    \/ ExtractRaises
    \/ Chunk
    \/ Index
    \/ Metadata
    \/ LoadFails
    \/ CacheHit
    \/ CacheMiss
    \/ OrchDispatchBatch
    \/ OrchBatchCallFails
    \/ OrchBatchCallReturns
    \/ OrchBatchCallReturnsNull
    \/ OrchYieldResult
    \/ OrchPhase1End
    \/ OrchPhase2End
    \/ ConsumeEvent
    \/ StreamComplete
    \/ SyncComplete
    \/ RunFails

SpecOrch == InitOrch /\ [][NextOrch]_vars


(***************************************************************************)
(* Properties of the orchestrator                                          *)
(***************************************************************************)
IdSet(ids) == {ids[i] : i \in 1..Len(ids)}
Occurrences(ids, id) == Cardinality({i \in 1..Len(ids) : ids[i] = id})
SameIdSet(a, b) == IdSet(a) = IdSet(b)
SameIdList(a, b) ==
    \A id \in IdSet(a) \cup IdSet(b) : Occurrences(a, id) = Occurrences(b, id)

\* Run i completed and wrote its cache row, and the later run j has the same
\* document text and framework.
CachedBefore(i, j) ==
    /\ i < j
    /\ returned[i].outcome = "completed"
    /\ returned[i].cache_written
    /\ returned[j].text = returned[i].text
    /\ returned[j].framework = returned[i].framework

\* Run j hit the cache and gave back the results of run i without analysing.
ReplaysRun(i, j) ==
    /\ returned[j].cache_hit
    /\ returned[j].analysis_calls = 0
    /\ returned[j].results = returned[i].results
    /\ returned[j].mode = "run_streaming" =>
         returned[j].replayed = returned[i].results

C6_HitSkipsEveryStage ==
    \A j \in 1..Len(returned) :
      returned[j].cache_hit =>
        /\ returned[j].stages = <<>>
        /\ returned[j].analysis_calls = 0
        /\ returned[j].mode = "run_streaming" =>
             returned[j].replayed = returned[j].results

\* C6, amended: a run that hits the cache has dispatched no analysis call,
\* and has executed extraction, chunking, indexing (the local-chunk hand-over
\* when the search service is not available) and the metadata call, in that
\* order, before the lookup; in streaming mode it replays one result event
\* per cached result, in the cached order.
C6_HitSkipsAnalysisOnly ==
    \A j \in 1..Len(returned) :
      returned[j].cache_hit =>
        /\ returned[j].stages =
             <<"extract", "chunk",
               IF search_available THEN "index" ELSE "local_chunks", "metadata">>
        /\ returned[j].analysis_calls = 0
        /\ returned[j].mode = "run_streaming" =>
             returned[j].replayed = returned[j].results

\* A streaming run hit the cache after indexing and replayed two results.
C6_HitAfterIndexing ==
    \E j \in 1..Len(returned) :
      /\ returned[j].cache_hit /\ returned[j].mode = "run_streaming"
      /\ search_available
      /\ Len(returned[j].results) = 2
      /\ Len(SelectSeq(stream, LAMBDA e : e.type = "result")) = 2

\* C7 as stated: a run never sends to the model a question whose progress
\* row was completed when the run began its analysis, and that row stays
\* completed.
C7_ResumeSkipsCompleted ==
    /\ \A k \in 1..Len(llm_calls) :
         \A n \in 1..Len(llm_calls[k].batch) :
           llm_calls[k].batch[n].id \notin already_done
    /\ \A id \in already_done :
         \E row \in progress_rows :
           row.job_id = job_id /\ row.question_id = id /\ row.status = "completed"

\* A run resumes the job of a run that failed with S1 completed and F2 not,
\* and sends S1 to the model again.
C7_CompletedQuestionDispatched ==
    /\ Len(returned) = 1 /\ returned[1].outcome = "failed"
    /\ opc = "analyzing" /\ Streaming
    /\ question_ids = <<"S1", "F2">>
    /\ already_done = {"S1"}
    /\ \E k \in 1..Len(llm_calls) : InBatch(llm_calls[k].batch, "S1")


(***************************************************************************)
(* Properties of the results the engine builds                             *)
(***************************************************************************)
\* The questions a finished run owes a result, in the order of analysis:
\* the source and independent questions, then the followups the phase-1
\* results trigger.
OwedQuestions ==
    SelectSeq(questions, LAMBDA q : q.question_type # "followup") \o
    SelectSeq(questions,
              LAMBDA q : /\ q.question_type = "followup"
                         /\ IsTriggered(q, SelectSeq(results,
                                                     LAMBDA r : r.sequence = 1)))

C12_StatusCanonical ==
    \A i \in 1..Len(Built) :
      /\ Built[i].error = "none" => Built[i].status \in {"YES", "NO", "N/A"}
      /\ Built[i].status = "ERROR" => Built[i].error # "none"
      /\ Built[i].status # "PENDING"

\* A result with context, built from a reply whose STATUS line read PENDING.
C12_PendingFromReply ==
    \E i \in 1..Len(Built) :
      /\ Built[i].error = "none"
      /\ Built[i].context_used > 0
      /\ Built[i].status = "PENDING"

\* C13 as stated: the confidence of every result is a number within
\* [0.0, 1.0].
C13_ConfidenceInUnitInterval ==
    \A i \in 1..Len(Built) :
      /\ Built[i].confidence # NaN
      /\ Built[i].confidence >= 0
      /\ Built[i].confidence <= 100

\* A result with context and evidence whose confidence is the 1.5 of the
\* reply, and one whose confidence is its -0.2.
C13_ConfidenceOutOfRange ==
    /\ \E i \in 1..Len(Built) :
         Built[i].context_used > 0 /\ Built[i].confidence = 150
    /\ \E i \in 1..Len(Built) :
         Built[i].context_used > 0 /\ Built[i].confidence = -20


(***************************************************************************)
(* Properties of the way a run ends                                        *)
(***************************************************************************)
RunEnded == opc = "idle" /\ runs > 0
LastRun == returned[Len(returned)]
StreamHas(type) == \E i \in 1..Len(stream) : stream[i].type = type
StreamEndsWith(type) == stream # <<>> /\ stream[Len(stream)].type = type

\* C14: a run whose analysis came to its end is reported as completed
\* whether or not the cache write and the ComplianceResult write succeeded:
\* the session is completed, run returns completed, and run_streaming ends
\* with its complete event and yields no error event.
C14_WriteFailuresSwallowed ==
    (RunEnded /\ epc = "done") =>
      /\ session.status = "completed"
      /\ LastRun.outcome = "completed"
      /\ Streaming => (StreamEndsWith("complete") /\ ~StreamHas("error"))

\* A streaming run that produced results ended with neither its cache row
\* nor its ComplianceResult rows written.
C14_BothWritesFailed ==
    /\ RunEnded /\ epc = "done" /\ Streaming
    /\ results # <<>>
    /\ ~LastRun.cache_written
    /\ cache = {}
    /\ persisted = {}

\* C15 as stated: when a stream of run_streaming holds an error event, that
\* event is its last, the stream holds no complete event, and once the
\* stream has ended the session is failed.
C15_ErrorEventTerminal ==
    (Streaming /\ StreamHas("error")) =>
      /\ StreamEndsWith("error")
      /\ Cardinality({i \in 1..Len(stream) : stream[i].type = "error"}) = 1
      /\ ~StreamHas("complete")
      /\ RunEnded => session.status = "failed"

\* A stream ended by the error event of a session without text, the session
\* still "analyzing".
C15_ErrorLeavesAnalyzing ==
    /\ RunEnded /\ Streaming
    /\ StreamEndsWith("error")
    /\ NoText(session.text)
    /\ session.status = "analyzing"

\* The session states on which run raises.
RunRaises ==
    \/ NoText(session.text)
    \/ Len(session.selected_standards) = 0
    \/ Len(get_items_for_standards(session.selected_standards)) = 0

\* C16 as stated: on a session state on which run raises, run does raise,
\* and run_streaming ends with an error event, yields no complete event,
\* writes no cache row and does not set the session to completed.
C16_StreamingFailsWhereRunRaises ==
    (RunEnded /\ RunRaises) =>
      IF Streaming
      THEN /\ StreamEndsWith("error")
           /\ ~StreamHas("complete")
           /\ ~LastRun.cache_written
           /\ session.status # "completed"
      ELSE LastRun.outcome = "failed"

\* run_streaming on a session with text and nothing to analyse: it ended
\* with a complete event, the session completed, an empty result list cached.
C16_StreamingCompletesWithoutQuestions ==
    /\ RunEnded /\ Streaming
    /\ ~NoText(session.text)
    /\ Len(get_items_for_standards(session.selected_standards)) = 0
    /\ StreamEndsWith("complete")
    /\ session.status = "completed"
    /\ LastRun.cache_written
    /\ \E row \in cache : row.results = <<>>


\* The progress rows of the running job that are still pending although the
\* result of their question is already with the caller of the engine.
StaleRows ==
    {row \in progress_rows :
        /\ row.job_id = job_id
        /\ row.status = "pending"
        /\ HasResult(results, row.question_id)}

\* C17 as stated: in run and in run_streaming alike, while the LLM call of
\* a batch is in flight no progress row of the job is still pending for a
\* question of a batch that has resolved: the pending rows belong to the
\* batch in flight or to batches not yet started.
C17_ProgressMarkedPerBatch ==
    (opc = "analyzing" /\ inflight # NoBatch) => StaleRows = {}

\* The same for run_streaming alone.
StreamingMarksPerBatch ==
    (opc = "analyzing" /\ Streaming /\ inflight # NoBatch) => StaleRows = {}

\* run has dispatched the followup batch while the row of the source
\* question, analysed by the batch before, is still pending.
C17_RunLeavesResolvedRowPending ==
    /\ opc = "analyzing" /\ ~Streaming
    /\ inflight # NoBatch /\ inflight.sequence = 2
    /\ \E row \in StaleRows : ~InBatch(inflight.batch, row.question_id)


(***************************************************************************)
(* Properties of what a completed run leaves behind                        *)
(***************************************************************************)
CompletedMiss ==
    /\ RunEnded
    /\ LastRun.outcome = "completed"
    /\ ~LastRun.cache_hit

JobRows(job) == {row \in progress_rows : row.job_id = job}

\* C28 as stated: when a cache-miss run reports completed, every progress
\* row made for its job at the start of the job is completed or failed; no
\* row of the job is pending or in_progress.
C28_NoRowLeftOpen ==
    CompletedMiss =>
      \A row \in JobRows(LastRun.job_id) : row.status \in {"completed", "failed"}

\* A completed cache-miss run with a pending row: the row of a followup that
\* was not triggered and so has no result.
C28_UntriggeredFollowupPending ==
    /\ CompletedMiss
    /\ \E row \in JobRows(LastRun.job_id) :
         /\ row.status = "pending"
         /\ ~HasResult(LastRun.results, row.question_id)
         /\ \E i \in 1..Len(questions) :
              /\ questions[i].id = row.question_id
              /\ questions[i].question_type = "followup"

\* The rows of the questions that do have a result are closed.
C28_AnsweredRowsClosed ==
    CompletedMiss =>
      \A row \in JobRows(LastRun.job_id) :
        (HasResult(LastRun.results, row.question_id)
           /\ row.question_id \notin already_done)
          => row.status \in {"completed", "failed"}

\* C29 as stated: a run whose analysis gave ERROR results does not store
\* them in the cache: every cached bundle holds results of status YES, NO or
\* N/A only, so that a later request with the key analyses the failed
\* questions again.
C29_ErrorsNotCached ==
    \A row \in cache :
      \A i \in 1..Len(row.results) : row.results[i].status # "ERROR"

\* A second run that hit the cache, sent nothing to the model and gave back
\* the ERROR result the first run had stored.
C29_ErrorReplayedFromCache ==
    /\ RunEnded
    /\ Len(returned) = 2
    /\ returned[1].outcome = "completed"
    /\ \E i \in 1..Len(returned[1].results) : returned[1].results[i].status = "ERROR"
    /\ returned[2].cache_hit
    /\ returned[2].analysis_calls = 0
    /\ returned[2].results = returned[1].results


(***************************************************************************)
(* Properties of the context search                                        *)
(***************************************************************************)
\* C18 as stated: when the remote search is not configured, or is configured
\* and its call fails, the question gets its context from the local search,
\* so it has context whenever the chunks hold matching text; and the search
\* never produces an error: a result carries one only when the LLM call of
\* its batch raised.
C18_SearchFailureFallsBackLocally ==
    /\ \A k \in 1..Len(llm_calls) :
         \A i \in 1..Len(llm_calls[k].batch) :
           (/\ llm_calls[k].searches[i].remote \in {"unconfigured", "failed"}
            /\ llm_calls[k].searches[i].local_match)
             => llm_calls[k].contexts[i] > 0
    /\ \A i \in 1..Len(Built) :
         Built[i].error # "none" =>
           \E k \in 1..Len(llm_calls) :
             /\ InBatch(llm_calls[k].batch, Built[i].question_id)
             /\ llm_calls[k].outcome \in CallErrors

\* The remote search of a question failed, the chunks held matching text,
\* and the question was analysed without context: its result is N/A.
C18_FailedSearchLeavesNoContext ==
    \E k \in 1..Len(llm_calls) :
      \E i \in 1..Len(llm_calls[k].batch) :
        /\ search_available
        /\ llm_calls[k].searches[i].remote = "failed"
        /\ llm_calls[k].searches[i].local_match
        /\ llm_calls[k].contexts[i] = 0
        /\ llm_calls[k].outcome = "ok"
        /\ \E j \in 1..Len(Built) :
             /\ Built[j].question_id = llm_calls[k].batch[i].id
             /\ Built[j].sequence = llm_calls[k].sequence
             /\ Built[j].status = "N/A"
             /\ Built[j].context_used = 0


(***************************************************************************)
(* The save-results request and the rows of the cache                      *)
(*                                                                         *)
(* SpecRefresh is SpecOrch with one more operation: between two runs the   *)
(* save-results endpoint may be called for the session of the last run.    *)
(***************************************************************************)
\* The most writes of one cache row by save-results requests.
MaxAccessCount == 2

\* Python's order on the standard keys.
StandardRank(key) == CASE key = "IAS_1" -> 1 [] key = "IAS_2" -> 2

RECURSIVE InsertStandard(_, _)
InsertStandard(key, sorted) ==
    IF sorted = <<>> THEN <<key>>
    ELSE IF StandardRank(key) <= StandardRank(Head(sorted)) THEN <<key>> \o sorted
    ELSE <<Head(sorted)>> \o InsertStandard(key, Tail(sorted))

\* sorted(selected)
RECURSIVE SortedStandards(_)
SortedStandards(keys) ==
    IF Len(keys) = 0 THEN <<>>
    ELSE InsertStandard(keys[1], SortedStandards(SubSeq(keys, 2, Len(keys))))

\* sha256(json.dumps(sorted(selected))): the digest save-results computes,
\* named by the list of standard keys it is of.
SaveResultsHash(selected) == <<"sha256(json)">> \o SortedStandards(selected)

\* save_results_to_cache: refused without results on the session; else the
\* row of (document_hash, session.framework, digest of the sorted standard
\* keys) is updated, or added when there is none.
SaveResultsToCache ==
    /\ opc = "idle" /\ runs > 0
    /\ session.analysis_results # <<>>
    /\ LET qh == SaveResultsHash(session.selected_standards)
       IN  /\ \A row \in CacheRows(document_hash, session.framework, qh) :
                row.access_count < MaxAccessCount
           /\ cache' = _save_cache(document_hash, session.framework, qh,
                                   session.analysis_results)
    /\ UNCHANGED <<search_available, opc, runs, run_mode, session, job_id,
                   already_done, stages, document_hash, question_ids,
                   progress_rows, persisted, stream, consumed, returned>>
    /\ UNCHANGED <<valVars, clientVars, engineVars, extraVars>>

NextRefresh ==
    \/ NextOrch
    \/ SaveResultsToCache

SpecRefresh == InitOrch /\ [][NextRefresh]_vars

\* The cache rows written for one combination of document text, framework
\* and selected standards (hence question set): the row keyed by a run, and
\* the row keyed by a save-results request.
RowsOfCombination(text, fw, selected) ==
    CacheRows(generate_document_hash(text), FrameworkOrDefault(fw),
              _compute_questions_hash(IdsOf(get_items_for_standards(selected))))
    \cup
    CacheRows(generate_document_hash(text), fw, SaveResultsHash(selected))

\* The three-part key alone is unique.
KeyUnique ==
    \A r1 \in cache, r2 \in cache :
      (/\ r1.document_hash = r2.document_hash
       /\ r1.framework = r2.framework
       /\ r1.questions_hash = r2.questions_hash) => r1 = r2

\* C19 as stated: whatever runs and save-results requests have been served,
\* the cache holds at most one row for a combination of document, framework
\* and question set, and no two rows share the three-part key.
C19_OneRowPerCombination ==
    /\ \A text \in Texts, fw \in Frameworks, selected \in Selections :
         Cardinality(RowsOfCombination(text, fw, selected)) <= 1
    /\ KeyUnique

\* After a run on a session and a save-results request for that session the
\* cache holds two rows with the session's document, framework and results.
C19_RefreshInsertedSecondRow ==
    /\ opc = "idle" /\ runs > 0
    /\ LastRun.cache_written
    /\ Cardinality(RowsOfCombination(session.text, session.framework,
                                     session.selected_standards)) = 2
    /\ \A row \in RowsOfCombination(session.text, session.framework,
                                    session.selected_standards) :
         row.results = session.analysis_results /\ row.access_count = 1


(***************************************************************************)
(* Concurrent calls on one client (SpecConcurrent)                         *)
(*                                                                         *)
(* chat_completion is a plain method of a client shared by the request     *)
(* threads, and the client holds no lock.  Each thread runs one call; the  *)
(* statements of _next_primary / _next_fallback are taken one memory       *)
(* access at a time: the read of the counter for idx, the read of the      *)
(* counter by +=, and the write of += interleave freely between threads.   *)
(***************************************************************************)
MaxThreads == 2
Threads == 1..MaxThreads

\* A thread that has not entered chat_completion.
ThreadStart ==
    [pc |-> "idle", pool |-> "primary", attempt |-> 0, idx |-> 0, tmp |-> 0,
     selected |-> [p \in {"primary", "fallback"} |-> 0]]

\* len(self._primary_clients) / len(self._fallback_clients)
PoolSize(pool) == IF pool = "primary" THEN n_primary ELSE n_fallback

\* self._primary_index / self._fallback_index
PoolIndex(pool) == IF pool = "primary" THEN primary_index ELSE fallback_index

\* _next_primary / _next_fallback up to idx
NextIdx(pool) ==
    IF pool = "primary"
    THEN _next_primary(primary_index, n_primary)
    ELSE _next_fallback(fallback_index, n_fallback)

InitConcurrent ==
    /\ ExtraIdle
    /\ ValidateIdle
    /\ EngineIdle
    /\ OrchIdle
    /\ n_primary \in 0..MaxEndpoints
    /\ n_fallback \in 0..MaxEndpoints
    /\ primary_index = 0
    /\ fallback_index = 0
    /\ cpc = "off"
    /\ attempt = 0
    /\ attempts = <<>>
    /\ response = NoResponse
    /\ raised = "none"
    /\ calls = 0
    /\ threads = [t \in Threads |-> ThreadStart]

ThreadUnchanged ==
    /\ UNCHANGED <<n_primary, n_fallback, cpc, attempt, attempts, response,
                   raised, calls>>
    /\ UNCHANGED <<valVars, engineVars, orchVars, extraVars>>

\* chat_completion is entered by thread t.
ThreadBegin(t) ==
    /\ threads[t].pc = "idle"
    /\ threads' = [threads EXCEPT ![t].pc =
                      IF n_primary = 0 /\ n_fallback = 0 THEN "raised" ELSE "loop"]
    /\ UNCHANGED <<primary_index, fallback_index>>
    /\ ThreadUnchanged

\* idx = self._index % len(clients), in an iteration of the loop of a pool.
SelectRead(t) ==
    /\ threads[t].pc = "loop"
    /\ threads[t].attempt < max_retries /\ PoolSize(threads[t].pool) > 0
    /\ threads' = [threads EXCEPT ![t].idx = NextIdx(threads[t].pool),
                                  ![t].pc = "load"]
    /\ UNCHANGED <<primary_index, fallback_index>>
    /\ ThreadUnchanged

\* self._index += 1, its read.
SelectLoad(t) ==
    /\ threads[t].pc = "load"
    /\ threads' = [threads EXCEPT ![t].tmp = PoolIndex(threads[t].pool),
                                  ![t].pc = "store"]
    /\ UNCHANGED <<primary_index, fallback_index>>
    /\ ThreadUnchanged

\* self._index += 1, its write; then the request goes to endpoint idx.
SelectStore(t) ==
    /\ threads[t].pc = "store"
    /\ IF threads[t].pool = "primary"
       THEN primary_index' = threads[t].tmp + 1 /\ UNCHANGED fallback_index
       ELSE fallback_index' = threads[t].tmp + 1 /\ UNCHANGED primary_index
    /\ threads' = [threads EXCEPT ![t].selected[threads[t].pool] = @ + 1,
                                  ![t].pc = "call"]
    /\ ThreadUnchanged

\* The endpoint answers: chat_completion returns.
EndpointOk(t) ==
    /\ threads[t].pc = "call"
    /\ threads' = [threads EXCEPT ![t].pc = "returned"]
    /\ UNCHANGED <<primary_index, fallback_index>>
    /\ ThreadUnchanged

\* RateLimitError or APIError: the loop goes on.
EndpointRetry(t) ==
    /\ threads[t].pc = "call"
    /\ threads' = [threads EXCEPT ![t].attempt = @ + 1, ![t].pc = "loop"]
    /\ UNCHANGED <<primary_index, fallback_index>>
    /\ ThreadUnchanged

\* An exception no except clause catches leaves chat_completion.
EndpointRaise(t) ==
    /\ threads[t].pc = "call"
    /\ threads' = [threads EXCEPT ![t].pc = "raised"]
    /\ UNCHANGED <<primary_index, fallback_index>>
    /\ ThreadUnchanged

\* The loop of a pool ends: on to the fallback pool, or the final raise.
ThreadLoopEnd(t) ==
    /\ threads[t].pc = "loop"
    /\ threads[t].attempt >= max_retries \/ PoolSize(threads[t].pool) = 0
    /\ threads' = IF threads[t].pool = "primary"
                  THEN [threads EXCEPT ![t].pool = "fallback",
                                       ![t].attempt = 0]
                  ELSE [threads EXCEPT ![t].pc = "raised"]
    /\ UNCHANGED <<primary_index, fallback_index>>
    /\ ThreadUnchanged

NextConcurrent ==
    \E t \in Threads :
      \/ ThreadBegin(t)
      \/ SelectRead(t)
      \/ SelectLoad(t)
      \/ SelectStore(t)
      \/ EndpointOk(t)
      \/ EndpointRetry(t)
      \/ EndpointRaise(t)
      \/ ThreadLoopEnd(t)

SpecConcurrent == InitConcurrent /\ [][NextConcurrent]_vars

\* The selections the threads have made from a pool.
RECURSIVE SelectedUpTo(_, _)
SelectedUpTo(t, pool) ==
    IF t = 0 THEN 0 ELSE threads[t].selected[pool] + SelectedUpTo(t - 1, pool)

Selecting(pool) ==
    \E t \in Threads : threads[t].pool = pool /\ threads[t].pc \in {"load", "store"}

\* C20 as stated: a selection reads and increments the counter of its pool
\* as one step, so a thread about to write the counter back finds it as it
\* read it, and whenever no selection is under way the counter of a pool
\* equals the number of selections made from it.
C20_SelectionAtomic ==
    /\ \A t \in Threads :
         threads[t].pc \in {"load", "store"} =>
           threads[t].idx = NextIdx(threads[t].pool)
    /\ \A t \in Threads :
         threads[t].pc = "store" => threads[t].tmp = PoolIndex(threads[t].pool)
    /\ \A pool \in {"primary", "fallback"} :
         ~Selecting(pool) => PoolIndex(pool) = SelectedUpTo(MaxThreads, pool)

\* Every call has ended, and the primary counter is behind the number of
\* selections made from the primary pool: an update was lost.
C20_LostUpdate ==
    /\ \A t \in Threads : threads[t].pc \in {"returned", "raised"}
    /\ primary_index < SelectedUpTo(MaxThreads, "primary")


(***************************************************************************)
(* The stages of a stream                                                  *)
(***************************************************************************)
\* The place of a stage in run_streaming; "cache_hit" and "analyzing" are
\* the two forms of the last stage.
StageRank(st) ==
    CASE st = "extracting" -> 1
      [] st = "chunking"   -> 2
      [] st = "indexing"   -> 3
      [] st = "metadata"   -> 4
      [] st = "analyzing"  -> 5
      [] st = "cache_hit"  -> 5
      [] OTHER             -> 0

StatusEvents == SelectSeq(stream, LAMBDA e : e.type = "status")
StagesAnnounced == {StageRank(StatusEvents[i].status) : i \in 1..Len(StatusEvents)}

\* The run met an exception: in the extraction, or in the analysis.
Raised == Unreadable(session.text) \/ epc = "failed"

\* C21: in a stream of run_streaming the stage events come in the order
\* extracting, chunking, indexing, metadata, then analyzing or cache_hit,
\* each at most once and none before an earlier stage; results come only
\* after the last stage was announced; the session is completed only after
\* all five stages; and when a stage raises, the session is failed and
\* the error event is the last of the stream.
C21_StagesInOrder ==
    Streaming =>
      /\ \A i \in 1..Len(StatusEvents) : StageRank(StatusEvents[i].status) = i
      /\ \A i \in 1..Len(stream) :
           stream[i].type \in {"result", "progress", "complete"} =>
             \E j \in 1..(i - 1) :
               /\ stream[j].type = "status"
               /\ StageRank(stream[j].status) = 5
      /\ session.status = "completed" => StagesAnnounced = 1..5
      /\ (RunEnded /\ Raised) =>
           /\ session.status = "failed"
           /\ StreamEndsWith("error")
           /\ ~StreamHas("complete")

\* A stream that went through every stage, gave a result, and then failed.
C21_FailedAfterAllStages ==
    /\ Streaming /\ RunEnded /\ epc = "failed"
    /\ StagesAnnounced = 1..5
    /\ StreamHas("result")
    /\ session.status = "failed"


\* A stream that failed in its first stage.
C21_FailedInFirstStage ==
    /\ Streaming /\ RunEnded /\ Unreadable(session.text)
    /\ StagesAnnounced = {1}
    /\ session.status = "failed"


(***************************************************************************)
(* ChunkingService.chunk_text (SpecChunk)                                  *)
(*                                                                         *)
(* A text is the sequence of its characters, over an alphabet with one     *)
(* lower-case letter, one capital, one sentence end, the blank and the     *)
(* newline: what the two regular expressions and strip() tell apart.       *)
(* chunk_text is run statement by statement; chunk_size, overlap and       *)
(* min_chunk_size are the constructor's arguments.                         *)
(***************************************************************************)
MaxTextLen == 6
MaxChunks == 8

Chars == {"a", "B", ".", " ", "\n"}
IsSpace(c) == c \in {" ", "\n"}

\* Every text of at most n characters.
TextsUpTo(n) == UNION {[1..k -> Chars] : k \in 0..n}

\* ChunkingService(chunk_size, overlap, min_chunk_size)
ChunkConfigs ==
    {[chunk_size |-> 4, overlap |-> 1, min_chunk_size |-> 2],
     [chunk_size |-> 5, overlap |-> 2, min_chunk_size |-> 2]}

\* the 500 of _find_split_point: search_start = max(0, max_len - 500)
SplitWindow == 500

Max(a, b) == IF a >= b THEN a ELSE b
Min(a, b) == IF a <= b THEN a ELSE b

\* s[a:b] of Python on 0-based offsets 0 <= a, b.
Slice(s, a, b) == SubSeq(s, a + 1, Min(b, Len(s)))

\* s.strip()
strip(s) ==
    LET keep == {i \in 1..Len(s) : ~IsSpace(s[i])}
    IN  IF keep = {} THEN <<>>
        ELSE SubSeq(s, CHOOSE i \in keep : \A j \in keep : i <= j,
                       CHOOSE i \in keep : \A j \in keep : i >= j)

AllSpace(s, a, b) == \A k \in a..b : IsSpace(s[k])

\* The matches of PARAGRAPH_BREAK (\n\s*\n), by the position of their last
\* character: a newline with an earlier newline and only white space between.
ParaBreakEnds(s) ==
    {l \in 1..Len(s) :
        /\ s[l] = "\n"
        /\ \E f \in 1..(l - 1) : s[f] = "\n" /\ AllSpace(s, f, l)
        /\ ~(l < Len(s) /\ \E m \in (l + 1)..Len(s) : s[m] = "\n" /\ AllSpace(s, l, m))}

\* The first character of the match of PARAGRAPH_BREAK that ends at l.
ParaBreakStart(s, l) ==
    CHOOSE f \in 1..(l - 1) :
      /\ s[f] = "\n" /\ AllSpace(s, f, l)
      /\ \A g \in 1..(f - 1) : ~(s[g] = "\n" /\ AllSpace(s, g, l))

\* PARAGRAPH_BREAK.split(text), then strip, then the non-empty pieces.
RECURSIVE SplitParagraphs(_)
SplitParagraphs(s) ==
    IF ParaBreakEnds(s) = {}
    THEN IF strip(s) = <<>> THEN <<>> ELSE <<strip(s)>>
    ELSE LET l == CHOOSE x \in ParaBreakEnds(s) : \A y \in ParaBreakEnds(s) : x <= y
             f == ParaBreakStart(s, l)
             head == strip(SubSeq(s, 1, f - 1))
         IN  (IF head = <<>> THEN <<>> ELSE <<head>>) \o
             SplitParagraphs(SubSeq(s, l + 1, Len(s)))

\* The matches of SENTENCE_END ((?<=[.!?])\s+(?=[A-Z])) as pairs <<first,
\* last>> of the white space matched.
SentenceEnds(s) ==
    {m \in (1..Len(s)) \X (1..Len(s)) :
        /\ m[1] > 1 /\ m[1] <= m[2] /\ m[2] < Len(s)
        /\ s[m[1] - 1] = "."
        /\ AllSpace(s, m[1], m[2])
        /\ s[m[2] + 1] = "B"}

SetMin(S) == CHOOSE x \in S : \A y \in S : x <= y

\* Mutant of _find_split_point: no split point is looked for.
_find_split_point_end(text, max_len) == Len(text)

\* _find_split_point(text, max_len)
_find_split_point(text, max_len) ==
    IF Len(text) <= max_len THEN Len(text)
    ELSE LET search_start == Max(0, max_len - SplitWindow)
             search_region == Slice(text, search_start, max_len)
             para_breaks == ParaBreakEnds(search_region)
             sentence_breaks == {m[2] : m \in SentenceEnds(search_region)}
             spaces == {j \in (search_start + 1)..max_len : text[j] = " "}
         IN  IF para_breaks # {} THEN search_start + SetMax(para_breaks)
             ELSE IF sentence_breaks # {} THEN search_start + SetMax(sentence_breaks)
             ELSE IF spaces # {} /\ SetMax(spaces) - 1 > search_start
                  THEN SetMax(spaces)
             ELSE max_len

\* _get_overlap(text)
_get_overlap(text, overlap) ==
    IF text = <<>> \/ overlap <= 0 THEN <<>>
    ELSE LET overlap_text == SubSeq(text, Max(1, Len(text) - overlap + 1), Len(text))
             starts == {m[1] : m \in SentenceEnds(overlap_text)}
             blanks == {j \in 1..Len(overlap_text) : overlap_text[j] = " "}
         IN  IF starts # {}
             THEN strip(SubSeq(overlap_text, SetMin(starts), Len(overlap_text)))
             ELSE IF blanks # {} /\ SetMin(blanks) > 1
                  THEN strip(SubSeq(overlap_text, SetMin(blanks) + 1, Len(overlap_text)))
             ELSE strip(overlap_text)

\* _create_chunk: the fields of a DocumentChunk that depend on the text alone.
\* overlap_start is never passed and keeps its default, 0.
_create_chunk(content, chunk_index) ==
    [content |-> content, chunk_index |-> chunk_index,
     char_count |-> Len(content), overlap_start |-> 0]

InitChunk ==
    /\ ValidateIdle
    /\ ClientIdle
    /\ EngineIdle
    /\ OrchIdle
    /\ ScorerIdle
    /\ RetrievalIdle
    /\ RaceIdle
    /\ IndexerIdle
    /\ \E text \in TextsUpTo(MaxTextLen), cfg \in ChunkConfigs :
         chunker = [pc |-> "called", text |-> text, cfg |-> cfg,
                    paragraphs |-> <<>>, current_content |-> <<>>,
                    chunks |-> <<>>]

ChunkUnchanged ==
    UNCHANGED <<valVars, clientVars, engineVars, orchVars, scorer, retrieval,
                race, indexer>>

\* if not text or not text.strip(): return []; else the paragraphs.
ChunkBegin ==
    /\ chunker.pc = "called"
    /\ chunker' = IF strip(chunker.text) = <<>>
                  THEN [chunker EXCEPT !.pc = "returned"]
                  ELSE [chunker EXCEPT !.pc = "for",
                                       !.paragraphs = SplitParagraphs(chunker.text)]
    /\ ChunkUnchanged

\* for para in paragraphs: the if / else that adds para to current_content.
NextParagraph ==
    /\ chunker.pc = "for" /\ chunker.paragraphs # <<>>
    /\ LET para == Head(chunker.paragraphs)
           cur == chunker.current_content
           NL2 == <<"\n", "\n">>
       IN  IF cur # <<>> /\ Len(cur) + Len(para) + 2 > chunker.cfg.chunk_size
           THEN LET overlap_text == _get_overlap(cur, chunker.cfg.overlap)
                IN  chunker' = [chunker EXCEPT
                       !.chunks = Append(@, _create_chunk(cur, Len(@))),
                       !.current_content =
                           IF overlap_text # <<>> THEN overlap_text \o NL2 \o para
                           ELSE para,
                       !.paragraphs = Tail(@),
                       !.pc = "while"]
           ELSE chunker' = [chunker EXCEPT
                       !.current_content =
                           IF cur # <<>> THEN cur \o NL2 \o para ELSE para,
                       !.paragraphs = Tail(@),
                       !.pc = "while"]
    /\ ChunkUnchanged

\* One iteration of while len(current_content) > self.chunk_size.
SplitLong ==
    /\ chunker.pc = "while"
    /\ Len(chunker.current_content) > chunker.cfg.chunk_size
    /\ Len(chunker.chunks) < MaxChunks
    /\ LET cur == chunker.current_content
           split_at == _find_split_point(cur, chunker.cfg.chunk_size)
           chunk_text == strip(Slice(cur, 0, split_at))
           remainder == strip(Slice(cur, split_at, Len(cur)))
           overlap_text == _get_overlap(chunk_text, chunker.cfg.overlap)
       IN  chunker' = [chunker EXCEPT
              !.chunks = IF Len(chunk_text) >= chunker.cfg.min_chunk_size
                         THEN Append(@, _create_chunk(chunk_text, Len(@)))
                         ELSE @,
              !.current_content =
                  IF overlap_text # <<>> THEN overlap_text \o <<" ">> \o remainder
                  ELSE remainder]
    /\ ChunkUnchanged

\* The while loop is left.
SplitDone ==
    /\ chunker.pc = "while"
    /\ Len(chunker.current_content) <= chunker.cfg.chunk_size
    /\ chunker' = [chunker EXCEPT !.pc = "for"]
    /\ ChunkUnchanged

\* After the for loop: the last chunk, if it is long enough; return chunks.
LastChunk ==
    /\ chunker.pc = "for" /\ chunker.paragraphs = <<>>
    /\ LET last == strip(chunker.current_content)
       IN  chunker' = [chunker EXCEPT
              !.chunks = IF last # <<>> /\ Len(last) >= chunker.cfg.min_chunk_size
                         THEN Append(@, _create_chunk(last, Len(@)))
                         ELSE @,
              !.pc = "returned"]
    /\ ChunkUnchanged

NextChunk ==
    \/ ChunkBegin
    \/ NextParagraph
    \/ SplitLong
    \/ SplitDone
    \/ LastChunk

SpecChunk == InitChunk /\ [][NextChunk]_vars


(***************************************************************************)
(* Properties of the chunks                                                *)
(***************************************************************************)
NonSpace(s) == SelectSeq(s, LAMBDA c : ~IsSpace(c))

\* The chunks' contents from overlap_start on, one after the other.
RECURSIVE NonOverlapText(_)
NonOverlapText(chunks) ==
    IF chunks = <<>> THEN <<>>
    ELSE SubSeq(Head(chunks).content, Head(chunks).overlap_start + 1,
                Len(Head(chunks).content)) \o NonOverlapText(Tail(chunks))

\* C22 as stated: chunk_text drops no text: the non-overlap portions of the
\* chunks it returns, put together in order, are the input text up to white
\* space, and so every character of the input that is not white space is in
\* a chunk.
C22_NoTextDropped ==
    chunker.pc = "returned" =>
      NonSpace(NonOverlapText(chunker.chunks)) = NonSpace(chunker.text)

\* A text that is not blank and of which chunk_text returned no chunk.
C22_ShortTextDropped ==
    /\ chunker.pc = "returned"
    /\ strip(chunker.text) # <<>>
    /\ Len(strip(chunker.text)) < chunker.cfg.min_chunk_size
    /\ chunker.chunks = <<>>

\* A text that came back with the overlap twice.
C22_OverlapRepeated ==
    /\ chunker.pc = "returned"
    /\ Len(NonSpace(NonOverlapText(chunker.chunks))) > Len(NonSpace(chunker.text))

\* C23: every chunk built by chunk_text has char_count equal to the length
\* of its content and at most chunk_size, the chunks that begin with the
\* overlap of the chunk before them included.
C23_ChunkSizeBound ==
    chunker.pc # "off" =>
      \A i \in 1..Len(chunker.chunks) :
        /\ chunker.chunks[i].char_count = Len(chunker.chunks[i].content)
        /\ chunker.chunks[i].char_count <= chunker.cfg.chunk_size

\* A chunk as long as chunk_size that begins with the overlap of the chunk
\* before it.
C23_FullChunkWithOverlap ==
    /\ chunker.pc = "returned"
    /\ \E i \in 2..Len(chunker.chunks) :
         LET tail == _get_overlap(chunker.chunks[i - 1].content, chunker.cfg.overlap)
         IN  /\ tail # <<>>
             /\ Len(chunker.chunks[i].content) > Len(tail)
             /\ SubSeq(chunker.chunks[i].content, 1, Len(tail)) = tail
             /\ chunker.chunks[i].char_count = chunker.cfg.chunk_size


(***************************************************************************)
(* The summaries of a list of results (SpecSummary): aggregate_results,   *)
(* the "complete" event and summary_data of run_streaming, and the replay *)
(* of a stored bundle on a cache hit.                                      *)
(***************************************************************************)
MaxScored == 8

\* int(x) in place of round(x).
PyTrunc(num, den) == num \div den

\* round(num / den) of Python 3 for den > 0: the nearest integer, and the
\* even one of the two when num / den lies half way between them.
PyRound(num, den) ==
    LET q == (2 * num + den) \div (2 * den)
        tie == (2 * num + den) % (2 * den) = 0
    IN  IF tie /\ q % 2 = 1 THEN q - 1 ELSE q

\* A list of n results of one status.
RECURSIVE ResultsOfStatus(_, _)
ResultsOfStatus(status, n) ==
    IF n = 0 THEN <<>>
    ELSE <<[NoResult EXCEPT !.status = status]>> \o ResultsOfStatus(status, n - 1)

\* The lists of results a run can end with, up to their order.
ScoredResults ==
    {ResultsOfStatus("YES", c) \o ResultsOfStatus("NO", n)
        \o ResultsOfStatus("N/A", na) \o ResultsOfStatus("ERROR", e) :
       <<c, n, na, e>> \in {t \in (0..MaxScored) \X (0..MaxScored)
                                    \X (0..MaxScored) \X (0..MaxScored) :
                              t[1] + t[2] + t[3] + t[4] <= MaxScored}}

aggregate_results(rs) ==
    LET compliant == Count(rs, "YES")
        non_compliant == Count(rs, "NO")
        assessed == compliant + non_compliant
    IN  [total |-> Len(rs),
         compliant |-> compliant,
         non_compliant |-> non_compliant,
         not_applicable |-> Count(rs, "N/A"),
         errors |-> Count(rs, "ERROR"),
         compliance_score |-> IF assessed > 0
                              THEN PyRound(100 * compliant, assessed)
                              ELSE 0]

\* summary_data of run_streaming, built from the "complete" event.
summary_data(data) ==
    [total |-> data.total,
     compliant |-> data.compliant,
     non_compliant |-> data.non_compliant,
     not_applicable |-> data.not_applicable,
     compliance_score |->
        PyRound(100 * data.compliant,
                Max(data.compliant + data.non_compliant, 1))]

\* summary.get(key, <count of status in result_list>) of the cache-hit path.
SummaryGet(bundle, key, status) ==
    IF key \in DOMAIN bundle.summary
    THEN bundle.summary[key]
    ELSE Count(bundle.results, status)

\* What the cache-hit path writes to the session and into its "complete"
\* event for a stored bundle.
CacheHitSummary(bundle) ==
    LET compliant == SummaryGet(bundle, "compliant", "YES")
        non_compliant == SummaryGet(bundle, "non_compliant", "NO")
        na == SummaryGet(bundle, "not_applicable", "N/A")
    IN  [total |-> Len(bundle.results),
         compliant |-> compliant,
         non_compliant |-> non_compliant,
         not_applicable |-> na,
         errors |-> 0,
         compliance_score |->
            PyRound(100 * compliant, Max(compliant + non_compliant, 1))]

NoBundle == [summary |-> [total |-> 0], results |-> <<>>]

InitSummary ==
    /\ ValidateIdle
    /\ ClientIdle
    /\ EngineIdle
    /\ OrchIdle
    /\ ChunkIdle
    /\ RetrievalIdle
    /\ RaceIdle
    /\ IndexerIdle
    /\ \E rs \in ScoredResults :
         scorer = [pc |-> "results", results |-> rs, path |-> "none",
                   complete |-> CompleteEvent(<<>>), bundle |-> NoBundle,
                   hit |-> CacheHitSummary(NoBundle)]

SummaryUnchanged ==
    UNCHANGED <<valVars, clientVars, engineVars, orchVars, chunker, retrieval,
                race, indexer>>

\* _execute_pipeline, step 8: aggregate_results and the bundle it stores.
AggregateAndSave ==
    /\ scorer.pc = "results"
    /\ scorer' = [scorer EXCEPT
                    !.pc = "stored",
                    !.path = "run",
                    !.bundle = [summary |-> aggregate_results(scorer.results),
                                results |-> scorer.results]]
    /\ SummaryUnchanged

\* run_streaming on the "complete" event of analyze_streaming.
StreamCompleteAndSave ==
    /\ scorer.pc = "results"
    /\ LET event == CompleteEvent(scorer.results)
       IN  scorer' = [scorer EXCEPT
                        !.pc = "stored",
                        !.path = "run_streaming",
                        !.complete = event,
                        !.bundle = [summary |-> summary_data(event),
                                    results |-> event.results]]
    /\ SummaryUnchanged

\* A later run with the same key: the cache-hit path replays the bundle.
CacheHitReplay ==
    /\ scorer.pc = "stored"
    /\ scorer' = [scorer EXCEPT !.pc = "hit",
                                !.hit = CacheHitSummary(scorer.bundle)]
    /\ SummaryUnchanged

NextSummary ==
    \/ AggregateAndSave
    \/ StreamCompleteAndSave
    \/ CacheHitReplay

SpecSummary == InitSummary /\ [][NextSummary]_vars


(***************************************************************************)
(* Properties of the summaries                                             *)
(***************************************************************************)
\* score is an integer of 0..100 and a nearest integer to 100 * c / (c + n),
\* and 0 when c + n = 0.
ScoreOf(score, c, n) ==
    /\ score \in 0..100
    /\ IF c + n = 0 THEN score = 0
       ELSE /\ 2 * (score * (c + n) - 100 * c) <= c + n
            /\ 2 * (100 * c - score * (c + n)) <= c + n

\* C24: the compliance score of aggregate_results, of the streaming
\* completion path and of the cache-hit path is an integer in 0..100, it is
\* 100 * compliant / (compliant + non_compliant) rounded to a nearest
\* integer, and it is 0 when compliant + non_compliant = 0; the N/A and ERROR
\* results are counted on their own and are not in the denominator.
C24_ScoreIsRoundedRatio ==
    LET c == Count(scorer.results, "YES")
        n == Count(scorer.results, "NO")
    IN  /\ scorer.pc \in {"stored", "hit"} =>
             /\ ScoreOf(scorer.bundle.summary.compliance_score, c, n)
             /\ scorer.bundle.summary.not_applicable = Count(scorer.results, "N/A")
        /\ scorer.pc = "hit" =>
             /\ ScoreOf(scorer.hit.compliance_score, c, n)
             /\ scorer.hit.not_applicable = Count(scorer.results, "N/A")

\* A replayed bundle with N/A and ERROR results whose ratio 1 / 8 lies half
\* way between 12 and 13.
C24_HalfWayScoreReplayed ==
    /\ scorer.pc = "hit"
    /\ Count(scorer.results, "YES") = 1
    /\ Count(scorer.results, "NO") = 7
    /\ scorer.hit.compliance_score = 12

\* A replayed bundle of N/A and ERROR results only.
C24_NothingAssessed ==
    /\ scorer.pc = "hit"
    /\ Count(scorer.results, "N/A") > 0
    /\ Count(scorer.results, "ERROR") > 0
    /\ Count(scorer.results, "YES") + Count(scorer.results, "NO") = 0
    /\ scorer.hit.compliance_score = 0

\* C30 as stated: the counts of the streaming "complete" event and of the
\* summary run_streaming stores (total, compliant, non_compliant,
\* not_applicable, errors) are the counts aggregate_results computes for the
\* same results; the errors count is the number of ERROR results.
C30_StreamingCountsAgree ==
    scorer.pc # "off" /\ scorer.path = "run_streaming" =>
      LET agg == aggregate_results(scorer.results)
          Agree(counts) ==
            /\ counts.total = agg.total
            /\ counts.compliant = agg.compliant
            /\ counts.non_compliant = agg.non_compliant
            /\ counts.not_applicable = agg.not_applicable
      IN  /\ Agree(scorer.complete)
          /\ Agree(scorer.bundle.summary)
          /\ scorer.complete.errors = agg.errors
          /\ "errors" \in DOMAIN scorer.bundle.summary
          /\ scorer.bundle.summary["errors"] = agg.errors

\* A streaming run with an ERROR result whose "complete" event says errors 0.
C30_ErrorsNotCounted ==
    /\ scorer.pc = "stored"
    /\ scorer.path = "run_streaming"
    /\ Count(scorer.results, "ERROR") > 0
    /\ scorer.complete.errors = 0

\* The other counts of the streaming path are those of aggregate_results.
C30_OtherCountsAgree ==
    scorer.pc # "off" /\ scorer.path = "run_streaming" =>
      LET agg == aggregate_results(scorer.results)
      IN  \A key \in {"total", "compliant", "non_compliant", "not_applicable"} :
            /\ scorer.complete[key] = agg[key]
            /\ scorer.bundle.summary[key] = agg[key]


(***************************************************************************)
(* The context search of one question (SpecRetrieval): the branch of       *)
(* _process_single_batch that picks the search, search_for_context with    *)
(* its taxonomy filter, and search_for_context_local.                      *)
(***************************************************************************)
MaxLocalChunks == 2

ContextTop == 5

\* Chunks by content: the taxonomy _classify_taxonomy gave them and the
\* number of the question's words they hold.
ChunkKinds ==
    {[content |-> "note on leases", taxonomy |-> "notes", score |-> 1],
     [content |-> "total assets", taxonomy |-> "balance_sheet", score |-> 2],
     [content |-> "directors report", taxonomy |-> "general", score |-> 1],
     [content |-> "note on tax", taxonomy |-> "notes", score |-> 0]}

ChunkLists ==
    UNION {[1..n -> ChunkKinds] : n \in 0..MaxLocalChunks}

ContextHints == {"notes_only", "financial_statements", "full", "whatever"}

NoFilter == {"<none>"}

\* taxonomy_map.get(context_required, None)
taxonomy_map(context_required) ==
    CASE context_required \in {"notes_only", "notes"} -> {"notes"}
      [] context_required = "financial_statements" ->
           {"balance_sheet", "income_statement", "cash_flow", "equity_changes"}
      [] context_required \in {"balance_sheet", "income_statement",
                               "cash_flow", "equity_changes"} -> {context_required}
      [] OTHER -> NoFilter

\* The first top elements of a list.
FirstN(list, top) == SubSeq(list, 1, Min(Len(list), top))

\* sort(key=score, reverse=True): by falling score, equal scores in the
\* order they had.
RECURSIVE InsertByScore(_, _)
InsertByScore(chunk, sorted) ==
    IF sorted = <<>> THEN <<chunk>>
    ELSE IF Head(sorted).score >= chunk.score
         THEN <<Head(sorted)>> \o InsertByScore(chunk, Tail(sorted))
         ELSE <<chunk>> \o sorted

RECURSIVE SortByScore(_)
SortByScore(list) ==
    IF list = <<>> THEN <<>>
    ELSE InsertByScore(list[Len(list)], SortByScore(SubSeq(list, 1, Len(list) - 1)))

\* The chunks of a list whose content did not occur before them.
FirstOccurrences(list) ==
    SelectSeq([i \in 1..Len(list) |->
                 [chunk |-> list[i],
                  seen |-> \E j \in 1..(i - 1) : list[j].content = list[i].content]],
              LAMBDA e : ~e.seen)

\* SearchService.search with a client: the documents of the index that pass
\* the filter and match the query, best first.
search_index(chunks, taxonomy_filter, top) ==
    FirstN(SortByScore(SelectSeq(chunks,
             LAMBDA c : /\ c.score > 0
                        /\ (taxonomy_filter = NoFilter \/ c.taxonomy \in taxonomy_filter))),
           top)

\* SearchService.search_for_context_local(question, chunks, top)
search_local(chunks, top) ==
    LET firsts == FirstOccurrences(chunks)
        scored == SelectSeq([i \in 1..Len(firsts) |-> firsts[i].chunk],
                            LAMBDA c : c.score > 0)
    IN  FirstN(SortByScore(scored), top)

InitRetrieval ==
    /\ ValidateIdle
    /\ ClientIdle
    /\ EngineIdle
    /\ OrchIdle
    /\ ChunkIdle
    /\ ScorerIdle
    /\ RaceIdle
    /\ IndexerIdle
    /\ \E hint \in ContextHints, chunks \in ChunkLists, available \in BOOLEAN :
         retrieval = [pc |-> "question", context_required |-> hint,
                      chunks |-> chunks, is_available |-> available,
                      served_by |-> "none", search_results |-> <<>>]

RetrievalUnchanged ==
    UNCHANGED <<valVars, clientVars, engineVars, orchVars, chunker, scorer,
                race, indexer>>

\* if self._search.is_available: search_for_context(...), the backend answers.
RemoteSearch ==
    /\ retrieval.pc = "question"
    /\ retrieval.is_available
    /\ retrieval' = [retrieval EXCEPT
                       !.pc = "searched",
                       !.served_by = "remote",
                       !.search_results =
                          search_index(retrieval.chunks,
                                       taxonomy_map(retrieval.context_required),
                                       ContextTop)]
    /\ RetrievalUnchanged

\* The same branch when the backend call raises: search returns [].
RemoteSearchFails ==
    /\ retrieval.pc = "question"
    /\ retrieval.is_available
    /\ retrieval' = [retrieval EXCEPT !.pc = "searched",
                                      !.served_by = "remote",
                                      !.search_results = <<>>]
    /\ RetrievalUnchanged

\* elif self._local_chunks: search_for_context_local(question, chunks, top=5)
LocalSearch ==
    /\ retrieval.pc = "question"
    /\ ~retrieval.is_available
    /\ retrieval.chunks # <<>>
    /\ retrieval' = [retrieval EXCEPT
                       !.pc = "searched",
                       !.served_by = "local",
                       !.search_results = search_local(retrieval.chunks, ContextTop)]
    /\ RetrievalUnchanged

\* else: search_results = []
NoSearch ==
    /\ retrieval.pc = "question"
    /\ ~retrieval.is_available
    /\ retrieval.chunks = <<>>
    /\ retrieval' = [retrieval EXCEPT !.pc = "searched",
                                      !.search_results = <<>>]
    /\ RetrievalUnchanged

NextRetrieval ==
    \/ RemoteSearch
    \/ RemoteSearchFails
    \/ LocalSearch
    \/ NoSearch

SpecRetrieval == InitRetrieval /\ [][NextRetrieval]_vars


(***************************************************************************)
(* Properties of the context search                                        *)
(***************************************************************************)
ContextTaxonomies ==
    {retrieval.search_results[i].taxonomy : i \in 1..Len(retrieval.search_results)}

\* C25 as stated: when the question's context_required maps to a taxonomy
\* set T, every context chunk of its prompt has a taxonomy in T, whether the
\* remote backend or the local keyword search served it.
C25_ContextWithinTaxonomy ==
    (/\ retrieval.pc = "searched"
     /\ taxonomy_map(retrieval.context_required) # NoFilter)
      => ContextTaxonomies \subseteq taxonomy_map(retrieval.context_required)

\* A notes_only question served by the local search with a balance sheet
\* chunk as its first context.
C25_LocalSearchIgnoresHint ==
    /\ retrieval.pc = "searched"
    /\ retrieval.served_by = "local"
    /\ retrieval.context_required = "notes_only"
    /\ retrieval.search_results # <<>>
    /\ retrieval.search_results[1].taxonomy = "balance_sheet"

\* The remote search keeps to the filter, and applies none for full and for
\* a hint it does not know.
C25_RemoteSearchFilters ==
    (retrieval.pc = "searched" /\ retrieval.served_by = "remote") =>
      IF taxonomy_map(retrieval.context_required) = NoFilter
      THEN retrieval.search_results \in
             {<<>>, search_index(retrieval.chunks, NoFilter, ContextTop)}
      ELSE ContextTaxonomies \subseteq taxonomy_map(retrieval.context_required)


(***************************************************************************)
(* Runs for one cache key side by side (SpecRace): every run has its own   *)
(* session and database connection; the table cached_analysis_results and  *)
(* its unique index idx_cached_results_lookup are shared.  The runs are    *)
(* for one (document_hash, framework, questions_hash), so that every row   *)
(* of the table is a row of their key.                                     *)
(***************************************************************************)
MaxRacers == 2

Racers == 1..MaxRacers

RunModes == {"run", "run_streaming"}

RacerStart(entry) ==
    [at |-> "lookup", run_mode |-> entry, status |-> "analyzing",
     cached |-> FALSE, existing |-> 0, save_raised |-> FALSE,
     reported |-> "none"]

\* INSERT and COMMIT without a unique index on the key.
db_insert_unindexed(rows, row) == [rows |-> Append(rows, row), raised |-> FALSE]

\* db.add(CachedAnalysisResult(...)); db.commit() under the unique index on
\* (document_hash, framework, questions_hash): IntegrityError when the key
\* has a row.
db_insert(rows, row) ==
    IF rows # <<>>
    THEN [rows |-> rows, raised |-> TRUE]
    ELSE [rows |-> Append(rows, row), raised |-> FALSE]

InitRace ==
    /\ ValidateIdle
    /\ ClientIdle
    /\ EngineIdle
    /\ OrchIdle
    /\ ChunkIdle
    /\ ScorerIdle
    /\ RetrievalIdle
    /\ IndexerIdle
    /\ \E modes \in [Racers -> RunModes] :
         race = [pc |-> "on", rows |-> <<>>,
                 runs |-> [r \in Racers |-> RacerStart(modes[r])]]

RaceUnchanged ==
    UNCHANGED <<valVars, clientVars, engineVars, orchVars, chunker, scorer,
                retrieval, indexer>>

\* _lookup_cache: the row of the key, its access_count incremented.
RaceLookup(r) ==
    /\ race.pc = "on"
    /\ race.runs[r].at = "lookup"
    /\ IF race.rows # <<>>
       THEN race' = [race EXCEPT
                       !.rows[1].access_count = @ + 1,
                       !.runs[r].cached = TRUE,
                       !.runs[r].at = "hit"]
       ELSE race' = [race EXCEPT !.runs[r].at = "pipeline"]
    /\ RaceUnchanged

\* The cache-hit path: the session is completed with the cached results.
RaceReplay(r) ==
    /\ race.pc = "on"
    /\ race.runs[r].at = "hit"
    /\ race' = [race EXCEPT !.runs[r].status = "completed",
                            !.runs[r].reported = "completed",
                            !.runs[r].at = "done"]
    /\ RaceUnchanged

\* The analysis, then update_session(status="completed"); run_streaming has
\* yielded the "complete" event by then.
RaceAnalyse(r) ==
    /\ race.pc = "on"
    /\ race.runs[r].at = "pipeline"
    /\ race' = [race EXCEPT
                  !.runs[r].status = "completed",
                  !.runs[r].reported =
                     IF race.runs[r].run_mode = "run_streaming"
                     THEN "completed" ELSE @,
                  !.runs[r].at = "save"]
    /\ RaceUnchanged

\* _save_cache: existing = query(...).first()
RaceSaveQuery(r) ==
    /\ race.pc = "on"
    /\ race.runs[r].at = "save"
    /\ race' = [race EXCEPT
                  !.runs[r].existing = IF race.rows # <<>> THEN race.rows[1].id ELSE 0,
                  !.runs[r].at = "commit"]
    /\ RaceUnchanged

\* _save_cache: the update of existing or the insert, and db.commit(); the
\* caller's except Exception logs what the commit raises.
RaceSaveCommit(r) ==
    /\ race.pc = "on"
    /\ race.runs[r].at = "commit"
    /\ IF race.runs[r].existing # 0
       THEN race' = [race EXCEPT
                       !.rows[1].results = r,
                       !.rows[1].access_count = @ + 1,
                       !.runs[r].at = "persist"]
       ELSE LET done == db_insert(race.rows,
                                  [id |-> r, results |-> r, access_count |-> 1])
            IN  race' = [race EXCEPT
                           !.rows = done.rows,
                           !.runs[r].save_raised = done.raised,
                           !.runs[r].at = "persist"]
    /\ RaceUnchanged

\* persist_results_to_db in its own try, then the end of the run: run
\* returns its dict with status "completed".
RaceFinish(r) ==
    /\ race.pc = "on"
    /\ race.runs[r].at = "persist"
    /\ race' = [race EXCEPT !.runs[r].reported = "completed",
                            !.runs[r].at = "done"]
    /\ RaceUnchanged

NextRace ==
    \E r \in Racers :
      \/ RaceLookup(r)
      \/ RaceReplay(r)
      \/ RaceAnalyse(r)
      \/ RaceSaveQuery(r)
      \/ RaceSaveCommit(r)
      \/ RaceFinish(r)

SpecRace == InitRace /\ [][NextRace]_vars


(***************************************************************************)
(* Properties of the runs side by side                                     *)
(***************************************************************************)
RaceOver == race.pc = "on" /\ \A r \in Racers : race.runs[r].at = "done"

\* C26: when runs for one uncached key execute side by side, in every
\* interleaving of their cache lookups and upserts every run reports
\* completed and the cache ends with exactly one row for the key; the runs
\* that found no row all ran the full pipeline.
C26_RacingRunsComplete ==
    /\ race.pc = "on" => Len(race.rows) <= 1
    /\ RaceOver =>
         /\ Len(race.rows) = 1
         /\ \A r \in Racers :
              /\ race.runs[r].reported = "completed"
              /\ race.runs[r].status = "completed"

\* Two runs that both found no row and both ran the pipeline, the insert of
\* one of them refused by the unique index.
C26_SecondInsertRefused ==
    /\ RaceOver
    /\ \A r \in Racers : ~race.runs[r].cached
    /\ \E r \in Racers : race.runs[r].save_raised


(***************************************************************************)
(* The search index while a session's chunks are indexed (SpecIndex):      *)
(* chunk_text numbers the chunks of each document from 0, index_chunks     *)
(* uploads them under the key "<session_id>_<chunk_index>".                *)
(***************************************************************************)
MaxDocChunks == 3

MaxOtherDocs == 2

\* The chunks chunk_text(text, doc_id=doc_id) returns for a text that gives
\* n chunks: chunk_index 0 .. n-1, chunk_id "<doc_id>_chunk_<chunk_index>".
ChunksOf(doc_id, n) ==
    [i \in 1..n |-> [chunk_index |-> i - 1, chunk_id |-> <<doc_id, "chunk", i - 1>>]]

\* The documents index_chunks builds for a chunk list.
IndexDocuments(chunks, session_id) ==
    {[id |-> <<session_id, chunks[i].chunk_index>>,
      session_id |-> session_id,
      chunk_index |-> chunks[i].chunk_index,
      content |-> chunks[i].chunk_id] : i \in 1..Len(chunks)}

\* upload_documents: a document replaces the document that has its key.
upload_documents(index, documents) ==
    {doc \in index : ~\E new \in documents : new.id = doc.id} \cup documents

InitIndex ==
    /\ ValidateIdle
    /\ ClientIdle
    /\ EngineIdle
    /\ OrchIdle
    /\ ChunkIdle
    /\ ScorerIdle
    /\ RetrievalIdle
    /\ RaceIdle
    /\ \E n_fs \in 0..MaxDocChunks, n_notes \in 0..MaxDocChunks,
          n_other \in 0..MaxOtherDocs :
         indexer = [pc |-> "extracted", sid |-> "s1",
                    n_fs |-> n_fs, n_notes |-> n_notes,
                    fs_chunks |-> <<>>, notes_chunks |-> <<>>,
                    index |-> IndexDocuments(ChunksOf(<<"s2", "fs">>, n_other), "s2"),
                    indexed_fs |-> 0, indexed_notes |-> 0]

IndexUnchanged ==
    UNCHANGED <<valVars, clientVars, engineVars, orchVars, chunker, scorer,
                retrieval, race>>

\* fs_chunks = chunk_text(fs_text, doc_id=f"{sid}_fs"), notes_chunks alike.
ChunkDocuments ==
    /\ indexer.pc = "extracted"
    /\ indexer' = [indexer EXCEPT
                     !.pc = "chunked",
                     !.fs_chunks = ChunksOf(<<indexer.sid, "fs">>, indexer.n_fs),
                     !.notes_chunks = ChunksOf(<<indexer.sid, "notes">>, indexer.n_notes)]
    /\ IndexUnchanged

\* index_chunks(fs_chunks, sid, document_hash)
IndexFs ==
    /\ indexer.pc = "chunked"
    /\ indexer' = [indexer EXCEPT
                     !.pc = "fs_indexed",
                     !.index = upload_documents(indexer.index,
                                 IndexDocuments(indexer.fs_chunks, indexer.sid)),
                     !.indexed_fs = Len(indexer.fs_chunks)]
    /\ IndexUnchanged

\* The same call when upload_documents raises: logged, 0 is returned.
IndexFsFails ==
    /\ indexer.pc = "chunked"
    /\ indexer' = [indexer EXCEPT !.pc = "fs_indexed", !.indexed_fs = 0]
    /\ IndexUnchanged

\* index_chunks(notes_chunks, sid, document_hash)
IndexNotes ==
    /\ indexer.pc = "fs_indexed"
    /\ indexer' = [indexer EXCEPT
                     !.pc = "indexed",
                     !.index = upload_documents(indexer.index,
                                 IndexDocuments(indexer.notes_chunks, indexer.sid)),
                     !.indexed_notes = Len(indexer.notes_chunks)]
    /\ IndexUnchanged

IndexNotesFails ==
    /\ indexer.pc = "fs_indexed"
    /\ indexer' = [indexer EXCEPT !.pc = "indexed", !.indexed_notes = 0]
    /\ IndexUnchanged

NextIndex ==
    \/ ChunkDocuments
    \/ IndexFs
    \/ IndexFsFails
    \/ IndexNotes
    \/ IndexNotesFails

SpecIndex == InitIndex /\ [][NextIndex]_vars


(***************************************************************************)
(* Properties of the index                                                 *)
(***************************************************************************)
SessionDocuments == {doc \in indexer.index : doc.session_id = indexer.sid}

BothIndexed ==
    /\ indexer.pc = "indexed"
    /\ indexer.indexed_fs = Len(indexer.fs_chunks)
    /\ indexer.indexed_notes = Len(indexer.notes_chunks)

\* C27 as stated: after both index_chunks calls of a session every chunk of
\* the financial statements and of the notes is in the index under a key of
\* its own, and the session has as many index documents as chunks were
\* produced.
C27_EveryChunkIndexed ==
    BothIndexed =>
      /\ \A i \in 1..Len(indexer.fs_chunks) :
           \E doc \in SessionDocuments : doc.content = indexer.fs_chunks[i].chunk_id
      /\ \A i \in 1..Len(indexer.notes_chunks) :
           \E doc \in SessionDocuments : doc.content = indexer.notes_chunks[i].chunk_id
      /\ Cardinality(SessionDocuments) =
           Len(indexer.fs_chunks) + Len(indexer.notes_chunks)

\* Both uploads succeeded and the first chunk of the financial statements is
\* not in the index: the first chunk of the notes has its key.
C27_NotesOverwroteStatements ==
    /\ BothIndexed
    /\ Len(indexer.fs_chunks) > 0
    /\ Len(indexer.notes_chunks) > 0
    /\ ~\E doc \in SessionDocuments : doc.content = indexer.fs_chunks[1].chunk_id
    /\ \E doc \in SessionDocuments :
         /\ doc.id = <<indexer.sid, 0>>
         /\ doc.content = indexer.notes_chunks[1].chunk_id

\* The documents of another session are left alone, and a session whose
\* notes (or statements) gave no chunk has all its chunks indexed.
C27_OneDocumentIsIndexedWhole ==
    /\ indexer.pc # "off" =>
         Cardinality(indexer.index \ SessionDocuments) <= MaxOtherDocs
    /\ (BothIndexed /\ (indexer.n_fs = 0 \/ indexer.n_notes = 0)) =>
         Cardinality(SessionDocuments) =
           Len(indexer.fs_chunks) + Len(indexer.notes_chunks)


====
